---- MODULE Spec2Model ----
(***************************************************************************)
(* Model of backend/services/hydraulic/hydraulicCalculator.py: the formula *)
(* catalog (get_formulas), unit normalisation (_convert_to_si), the routing *)
(* method (calculate) and the seven evaluators.                             *)
(*                                                                          *)
(* Python floats are modelled as decimal floating-point numbers m * 10^e    *)
(* with a four-digit mantissa, rounded half-to-even after every operation.  *)
(* Strings keep the source's text, except that the non-ASCII symbols are    *)
(* spelled in ASCII: "eta" for the pump efficiency, "dV" for the velocity   *)
(* change, "m2" "cm2" "ft2" "in2" for the areas and "m3/s" for the flow.    *)
(***************************************************************************)
EXTENDS Integers, Sequences, FiniteSets, TLC

(***************************************************************************)
(* Floating-point numbers                                                   *)
(***************************************************************************)

\* Mantissas of computed values lie in MantMin..MantMax-1 (four digits).
MantMin == 10 * 10 * 10
MantMax == 10 * MantMin

RECURSIVE Pow10(_)
Pow10(n) == IF n <= 0 THEN 1 ELSE 10 * Pow10(n - 1)

Abs(i) == IF i < 0 THEN -i ELSE i

Sign(i) == IF i < 0 THEN -1 ELSE IF i > 0 THEN 1 ELSE 0

\* The number of digits |a| has beyond the mantissa's four.
RECURSIVE ExcessDigits(_)
ExcessDigits(a) == IF a < MantMax THEN 0 ELSE 1 + ExcessDigits(a \div 10)

\* The number of digits |a| lacks to fill the mantissa (a > 0).
RECURSIVE LackingDigits(_)
LackingDigits(a) == IF a >= MantMin THEN 0 ELSE 1 + LackingDigits(a * 10)

\* a / 10^d rounded to the nearest integer, ties to even (a >= 0).
RoundDiv(a, d) ==
    LET p == Pow10(d)
        q == a \div p
        r == a % p
    IN  IF 2 * r > p \/ (2 * r = p /\ q % 2 = 1) THEN q + 1 ELSE q

\* A float value: k is "real" or "complex"; a complex value keeps no digits.
Real(m, e) == [k |-> "real", m |-> m, e |-> e, exc |-> "", arg |-> ""]

Zero == Real(0, 0)

Complex == [k |-> "complex", m |-> 0, e |-> 0, exc |-> "", arg |-> ""]

\* An exception raised while a value was being computed.
Raise(exc, arg) == [k |-> "raise", m |-> 0, e |-> 0, exc |-> exc, arg |-> arg]

IsRaise(x) == x.k = "raise"

IsReal(x) == x.k = "real"

\* The float nearest to m * 10^e.
Norm(m, e) ==
    IF m = 0 THEN Zero
    ELSE LET a == Abs(m)
             d == ExcessDigits(a)
             l == LackingDigits(a)
             q == RoundDiv(a, d)
         IN  IF d > 0
             THEN IF q = MantMax
                  THEN Real(Sign(m) * MantMin, e + d + 1)
                  ELSE Real(Sign(m) * q, e + d)
             ELSE Real(Sign(m) * a * Pow10(l), e - l)

\* A literal of the source: m * 10^e.
Lit(m, e) == Norm(m, e)

IsZero(x) == IsReal(x) /\ x.m = 0

IsNeg(x) == IsReal(x) /\ x.m < 0

\* x < y on reals, as Python compares floats.
Lt(x, y) ==
    IF x.m = 0 \/ y.m = 0 \/ Sign(x.m) # Sign(y.m) THEN
        (IF x.m = 0 THEN 0 ELSE Sign(x.m)) < (IF y.m = 0 THEN 0 ELSE Sign(y.m))
    ELSE IF x.m > 0 THEN x.e < y.e \/ (x.e = y.e /\ x.m < y.m)
    ELSE x.e > y.e \/ (x.e = y.e /\ x.m < y.m)

\* x >= y in the place of x > y.
Ge(x, y) == IsReal(x) /\ IsReal(y) /\ ~Lt(x, y)

Gt(x, y) == Lt(y, x)

\* x * y; an operand that raised is propagated, the left one first.
Mul(x, y) ==
    IF IsRaise(x) THEN x
    ELSE IF IsRaise(y) THEN y
    ELSE IF x.k = "complex" \/ y.k = "complex" THEN Complex
    ELSE Norm(x.m * y.m, x.e + y.e)

\* Division as IEEE 754 defines it, without Python's check of the divisor:
\* a zero divisor gives an infinity (or a NaN) and nothing is raised.
Inf == [k |-> "inf", m |-> 0, e |-> 0, exc |-> "", arg |-> ""]

DivUnchecked(x, y) ==
    IF IsRaise(x) THEN x
    ELSE IF IsRaise(y) THEN y
    ELSE IF IsZero(y) THEN Inf
    ELSE IF x.k = "complex" \/ y.k = "complex" THEN Complex
    ELSE Norm((x.m * Pow10(5)) \div y.m, x.e - y.e - 5)

\* x / y; Python raises ZeroDivisionError on a zero divisor.
Div(x, y) ==
    IF IsRaise(x) THEN x
    ELSE IF IsRaise(y) THEN y
    ELSE IF IsZero(y) THEN
        Raise("ZeroDivisionError",
              IF x.k = "complex" THEN "complex division by zero"
              ELSE "float division by zero")
    ELSE IF x.k = "complex" \/ y.k = "complex" THEN Complex
    ELSE Norm((x.m * Pow10(5)) \div y.m, x.e - y.e - 5)

\* The integer square root of n >= 0, by Newton's iteration from above.
RECURSIVE ISqrtFrom(_, _)
ISqrtFrom(n, x) ==
    LET y == (x + n \div x) \div 2
    IN  IF y >= x THEN x ELSE ISqrtFrom(n, y)

ISqrt(n) == IF n = 0 THEN 0 ELSE ISqrtFrom(n, n)

\* math.sqrt(x): raises ValueError("math domain error") on a negative
\* argument, TypeError on a complex one.
Sqrt(x) ==
    IF IsRaise(x) THEN x
    ELSE IF x.k = "complex" THEN Raise("TypeError", "must be real number, not complex")
    ELSE IF x.m < 0 THEN Raise("ValueError", "math domain error")
    ELSE IF x.m = 0 THEN Zero
    ELSE LET odd == x.e % 2 = 1
             m2  == IF odd THEN x.m * 10 ELSE x.m
             e2  == IF odd THEN x.e - 1 ELSE x.e
         IN  Norm(ISqrt(m2 * Pow10(4)), (e2 - 4) \div 2)

\* x ** (sum of 2^-i for i in bits), x > 0 real: the product of the
\* repeated square roots of x that the binary digits of the exponent select.
RECURSIVE RootProduct(_, _, _, _)
RootProduct(root, i, bits, n) ==
    IF i > n THEN Lit(1, 0)
    ELSE LET r == Sqrt(root)
         IN  IF i \in bits
             THEN Mul(r, RootProduct(r, i + 1, bits, n))
             ELSE RootProduct(r, i + 1, bits, n)

\* x ** y for a float exponent y = whole + fraction, the fraction given by
\* its first seven binary digits.  Python: a negative base with a
\* non-integer exponent gives a complex number; 0 ** y is 0 for y > 0.
RECURSIVE IntPow(_, _)
IntPow(x, n) == IF n = 0 THEN Lit(1, 0) ELSE Mul(x, IntPow(x, n - 1))

Pow(x, whole, bits) ==
    IF IsRaise(x) THEN x
    ELSE IF x.k = "complex" THEN Complex
    ELSE IF x.m = 0 THEN Zero
    ELSE IF x.m < 0 THEN (IF bits = {} THEN IntPow(x, whole) ELSE Complex)
    ELSE Mul(IntPow(x, whole), RootProduct(x, 1, bits, 7))

\* f"{x}": all the digits of x, whatever the precision asked for.
FmtVerbatim(x, d) == <<x.m, x.e>>

\* The number that f"{x:.df}" prints for a real x, as <<n, s>> for
\* n * 10^s: x rounded to d decimals (all of x when it has fewer).
Fmt(x, d) ==
    LET s == x.e + d
    IN  IF s >= 0 THEN <<x.m, x.e>>
        ELSE IF -s > 8 THEN <<0, -d>>
        ELSE <<Sign(x.m) * RoundDiv(Abs(x.m), -s), -d>>

(***************************************************************************)
(* The calculator object and the formula catalog                            *)
(***************************************************************************)

\* HydraulicCalculator.__init__: the three physical constants.
__init__ ==
    [gravity             |-> Lit(981, -2),
     water_density       |-> Lit(1000, 0),
     kinematic_viscosity |-> Lit(1003, -9)]

\* FormulaCategory
HEAD_LOSS == "head_loss"
FLOW == "flow"
PUMP == "pump"
TANK_SIZING == "tank_sizing"
WATER_HAMMER == "water_hammer"

\* A parameter descriptor; 'defaultValue' and 'range' are optional keys.
Param(symbol, name, description, units) ==
    [symbol |-> symbol, name |-> name, description |-> description,
     units |-> units]

WithDefault(p, value) == p @@ [defaultValue |-> value]

WithRange(p, min, max) == p @@ [range |-> [min |-> min, max |-> max]]

\* The list literal that get_formulas builds.
FormulaList ==
    << [id |-> "darcy_weisbach",
        name |-> "Darcy-Weisbach Head Loss",
        category |-> HEAD_LOSS,
        equation |-> "hf = f x (L/D) x (V2/2g)",
        parameters |-> <<
          WithRange(Param("f", "Friction Factor",
                          "Darcy friction factor (dimensionless)", <<"-">>),
                    Lit(8, -3), Lit(1, -1)),
          WithDefault(Param("L", "Pipe Length", "Length of the pipe",
                            <<"m", "ft", "km">>), Lit(100, 0)),
          WithDefault(Param("D", "Pipe Diameter",
                            "Internal diameter of the pipe",
                            <<"m", "mm", "in", "ft">>), Lit(15, -2)),
          WithRange(Param("V", "Velocity", "Flow velocity in the pipe",
                          <<"m/s", "ft/s">>), Lit(1, -1), Lit(5, 0)) >>],
       [id |-> "hazen_williams",
        name |-> "Hazen-Williams Head Loss",
        category |-> HEAD_LOSS,
        equation |-> "hf = 10.67 x L x Q^1.852 / (C^1.852 x D^4.871)",
        parameters |-> <<
          WithDefault(Param("L", "Pipe Length", "Length of the pipe",
                            <<"m", "ft", "km">>), Lit(100, 0)),
          WithDefault(Param("Q", "Flow Rate", "Volumetric flow rate",
                            <<"m3/s", "L/s", "gpm">>), Lit(5, -2)),
          WithRange(WithDefault(Param("C", "C Coefficient",
                                      "Hazen-Williams roughness coefficient",
                                      <<"-">>), Lit(130, 0)),
                    Lit(80, 0), Lit(150, 0)),
          WithDefault(Param("D", "Pipe Diameter",
                            "Internal diameter of the pipe",
                            <<"m", "mm", "in">>), Lit(15, -2)) >>],
       [id |-> "continuity_equation",
        name |-> "Continuity Equation",
        category |-> FLOW,
        equation |-> "Q = A x V",
        parameters |-> <<
          WithDefault(Param("A", "Cross-sectional Area",
                            "Flow cross-sectional area",
                            <<"m2", "cm2", "ft2">>), Lit(177, -4)),
          WithDefault(Param("V", "Velocity", "Flow velocity",
                            <<"m/s", "ft/s">>), Lit(2, 0)) >>],
       [id |-> "orifice_flow",
        name |-> "Orifice Flow",
        category |-> FLOW,
        equation |-> "Q = Cd x A x sqrt(2gh)",
        parameters |-> <<
          WithRange(WithDefault(Param("Cd", "Discharge Coefficient",
                                      "Orifice discharge coefficient",
                                      <<"-">>), Lit(62, -2)),
                    Lit(5, -1), Lit(8, -1)),
          WithDefault(Param("A", "Orifice Area", "Area of the orifice",
                            <<"m2", "cm2", "in2">>), Lit(5, -3)),
          WithDefault(Param("h", "Head", "Head above orifice centerline",
                            <<"m", "ft">>), Lit(2, 0)) >>],
       [id |-> "pump_power",
        name |-> "Pump Power",
        category |-> PUMP,
        equation |-> "P = rho g Q H / eta",
        parameters |-> <<
          WithDefault(Param("Q", "Flow Rate", "Volumetric flow rate",
                            <<"m3/s", "L/s", "gpm">>), Lit(5, -2)),
          WithDefault(Param("H", "Total Head", "Total dynamic head",
                            <<"m", "ft">>), Lit(30, 0)),
          WithRange(WithDefault(Param("eta", "Efficiency",
                                      "Overall pump efficiency (0-1)",
                                      <<"-">>), Lit(75, -2)),
                    Lit(4, -1), Lit(9, -1)) >>],
       [id |-> "tank_volume",
        name |-> "Cylindrical Tank Volume",
        category |-> TANK_SIZING,
        equation |-> "V = pi x D2/4 x H",
        parameters |-> <<
          WithDefault(Param("D", "Tank Diameter",
                            "Internal diameter of the tank",
                            <<"m", "ft">>), Lit(3, 0)),
          WithDefault(Param("H", "Tank Height", "Height of water in tank",
                            <<"m", "ft">>), Lit(4, 0)) >>],
       [id |-> "water_hammer_pressure",
        name |-> "Water Hammer Pressure",
        category |-> WATER_HAMMER,
        equation |-> "dP = rho x c x dV",
        parameters |-> <<
          WithRange(WithDefault(Param("c", "Wave Speed",
                                      "Pressure wave speed in pipe",
                                      <<"m/s", "ft/s">>), Lit(1200, 0)),
                    Lit(900, 0), Lit(1400, 0)),
          WithDefault(Param("dV", "Velocity Change",
                            "Change in flow velocity",
                            <<"m/s", "ft/s">>), Lit(2, 0)) >> ] >>

\* The catalog descriptor of a catalog id.
Descriptor(id) ==
    FormulaList[CHOOSE k \in 1 .. Len(FormulaList) : FormulaList[k].id = id]

\* A normalized input lies outside the range of its parameter in the catalog.
OutOfRange(id, si) ==
    \E k \in 1 .. Len(Descriptor(id).parameters) :
        LET p == Descriptor(id).parameters[k]
        IN  /\ "range" \in DOMAIN p
            /\ p.symbol \in DOMAIN si
            /\ Lt(si[p.symbol], p.range.min) \/ Gt(si[p.symbol], p.range.max)

(***************************************************************************)
(* Unit normalisation                                                       *)
(***************************************************************************)

\* value *= m * 10^e, the factor taken exactly and the product rounded.
Times(value, m, e) == Norm(value.m * m, value.e + e)

\* value /= 10^n
Over(value, n) == Norm(value.m, value.e - n)

\* The if/elif chain of _convert_to_si's loop body: the value of one entry
\* in SI units.
\* The chain with a strict else branch: an unknown unit is an error.
ConvertStrict(value, unit) ==
    IF unit = "ft" THEN Times(value, 3048, -4)
    ELSE IF unit = "km" THEN Times(value, 1000, 0)
    ELSE IF unit = "mm" THEN Over(value, 3)
    ELSE IF unit = "in" THEN Times(value, 254, -4)
    ELSE IF unit = "cm" THEN Over(value, 2)
    ELSE IF unit = "cm2" THEN Over(value, 4)
    ELSE IF unit = "ft2" THEN Times(value, 92903, -6)
    ELSE IF unit = "in2" THEN Times(value, 64516, -8)
    ELSE IF unit = "L/s" THEN Over(value, 3)
    ELSE IF unit = "gpm" THEN Times(value, 6309, -8)
    ELSE IF unit = "ft/s" THEN Times(value, 3048, -4)
    ELSE IF unit \in {"m", "m2", "m/s", "m3/s", "-"} THEN value
    ELSE Raise("ValueError", "Unknown unit: " \o unit)

\* The chain with the millimetre branch multiplying instead of dividing.
ConvertMillimetresUp(value, unit) ==
    IF unit = "ft" THEN Times(value, 3048, -4)
    ELSE IF unit = "km" THEN Times(value, 1000, 0)
    ELSE IF unit = "mm" THEN Times(value, 1000, 0)
    ELSE IF unit = "in" THEN Times(value, 254, -4)
    ELSE IF unit = "cm" THEN Over(value, 2)
    ELSE IF unit = "cm2" THEN Over(value, 4)
    ELSE IF unit = "ft2" THEN Times(value, 92903, -6)
    ELSE IF unit = "in2" THEN Times(value, 64516, -8)
    ELSE IF unit = "L/s" THEN Over(value, 3)
    ELSE IF unit = "gpm" THEN Times(value, 6309, -8)
    ELSE IF unit = "ft/s" THEN Times(value, 3048, -4)
    ELSE value

\* The chain without the branch for gallons per minute.
ConvertWithoutGallons(value, unit) ==
    IF unit = "ft" THEN Times(value, 3048, -4)
    ELSE IF unit = "km" THEN Times(value, 1000, 0)
    ELSE IF unit = "mm" THEN Over(value, 3)
    ELSE IF unit = "in" THEN Times(value, 254, -4)
    ELSE IF unit = "cm" THEN Over(value, 2)
    ELSE IF unit = "cm2" THEN Over(value, 4)
    ELSE IF unit = "ft2" THEN Times(value, 92903, -6)
    ELSE IF unit = "in2" THEN Times(value, 64516, -8)
    ELSE IF unit = "L/s" THEN Over(value, 3)
    ELSE IF unit = "ft/s" THEN Times(value, 3048, -4)
    ELSE value

Convert(value, unit) ==
    IF unit = "ft" THEN Times(value, 3048, -4)
    ELSE IF unit = "km" THEN Times(value, 1000, 0)
    ELSE IF unit = "mm" THEN Over(value, 3)
    ELSE IF unit = "in" THEN Times(value, 254, -4)
    ELSE IF unit = "cm" THEN Over(value, 2)
    ELSE IF unit = "cm2" THEN Over(value, 4)
    ELSE IF unit = "ft2" THEN Times(value, 92903, -6)
    ELSE IF unit = "in2" THEN Times(value, 64516, -8)
    ELSE IF unit = "L/s" THEN Over(value, 3)
    ELSE IF unit = "gpm" THEN Times(value, 6309, -8)
    ELSE IF unit = "ft/s" THEN Times(value, 3048, -4)
    ELSE value

\* si_values = {}
EmptyDict == [param \in {} |-> Zero]

\* si_values[param] = value
SetItem(dict, param, value) ==
    [p \in DOMAIN dict \cup {param} |-> IF p = param THEN value ELSE dict[p]]

\* A converter that looks at the parameter too: "ft" on an area symbol is
\* taken as square feet.
ConvertEntryByParam(si_values, entry) ==
    SetItem(si_values, entry.param,
            IF entry.param = "A" /\ entry.unit = "ft"
            THEN Times(entry.value, 92903, -6)
            ELSE Convert(entry.value, entry.unit))

\* An iteration that stores only what a branch of the chain converted: an
\* entry the chain leaves as it is gets no key in si_values.
ConvertEntryIfConverted(si_values, entry) ==
    IF Convert(entry.value, entry.unit) = entry.value
    THEN si_values
    ELSE SetItem(si_values, entry.param, Convert(entry.value, entry.unit))

\* One iteration of the loop over inputs.items(): entry is (param, data).
ConvertEntry(si_values, entry) ==
    SetItem(si_values, entry.param, Convert(entry.value, entry.unit))

\* The loop of _convert_to_si from the i-th item of inputs on.
RECURSIVE ConvertFrom(_, _, _)
ConvertFrom(inputs, i, si_values) ==
    IF i > Len(inputs) THEN si_values
    ELSE ConvertFrom(inputs, i + 1, ConvertEntry(si_values, inputs[i]))

_convert_to_si(inputs) == ConvertFrom(inputs, 1, EmptyDict)

(***************************************************************************)
(* The evaluators                                                           *)
(***************************************************************************)

\* inputs.get(key, 1.0): a default stands in for an absent key.
GetItemOrDefault(inputs, key) ==
    IF key \in DOMAIN inputs THEN inputs[key] ELSE Lit(1, 0)

\* inputs[key]: KeyError(key) when the key is absent.
GetItem(inputs, key) ==
    IF key \in DOMAIN inputs THEN inputs[key] ELSE Raise("KeyError", key)

\* The exception that leaves a function whose statements computed the
\* values of seq in this order, from the i-th on; Zero when none raised.
RECURSIVE FirstRaise(_, _)
FirstRaise(seq, i) ==
    IF i > Len(seq) THEN Zero
    ELSE IF IsRaise(seq[i]) THEN seq[i]
    ELSE FirstRaise(seq, i + 1)

\* What a call does: it returns a CalculationResponse or raises.
Raised(x) == [kind |-> "raise", exc |-> x.exc, arg |-> x.arg]

CalculationResponse(result, inputs, intermediate_steps, warnings, recommendations) ==
    [kind |-> "return",
     result |-> result,
     inputs |-> inputs,
     intermediate_steps |-> intermediate_steps,
     warnings |-> warnings,
     recommendations |-> recommendations]

\* The function body: the statements' values in order, then the return.
Body(values, response) ==
    LET x == FirstRaise(values, 1)
    IN  IF IsRaise(x) THEN Raised(x) ELSE response

IntermediateStep(description, formula, result) ==
    [description |-> description, formula |-> formula, result |-> result]

\* The append without its if: x is appended whatever cond is.
AppendAlways(list, cond, x) == Append(list, x)

\* A list with x appended when cond holds: "if cond: list.append(x)".
AppendIf(list, cond, x) == IF cond THEN Append(list, x) ELSE list

\* math.pi
pi == Lit(3142, -3)

\* The evaluator with the low-velocity test taken as V <= 0.6.
DarcyWeisbachLowInclusive(self, inputs) ==
    LET f  == GetItem(inputs, "f")
        L  == GetItem(inputs, "L")
        D  == GetItem(inputs, "D")
        V  == GetItem(inputs, "V")
        velocity_head == Div(Mul(V, V), Mul(Lit(2, 0), self.gravity))
        hf == Mul(Mul(f, Div(L, D)), velocity_head)
        Re == Div(Mul(V, D), self.kinematic_viscosity)
        steps ==
            << IntermediateStep("Calculate velocity head",
                                <<"V2/(2g) = {V}2/(2x{g})", V, self.gravity>>,
                                velocity_head),
               IntermediateStep("Calculate L/D ratio",
                                <<"L/D = {L}/{D}", L, D>>, Div(L, D)),
               IntermediateStep("Calculate Reynolds number",
                                <<"Re = VD/nu = {V}x{D}/{nu}", V, D,
                                  self.kinematic_viscosity>>, Re) >>
        warnings ==
            IF ~Gt(V, Lit(6, -1))
            THEN << <<"Velocity is low. Risk of sedimentation.">> >>
            ELSE IF Gt(V, Lit(3, 0))
            THEN << <<"Velocity is high. Risk of erosion and noise.">> >>
            ELSE << >>
        recommendations ==
            IF Lt(Re, Lit(2000, 0))
            THEN << <<"Flow is laminar. Consider using f = 64/Re.">> >>
            ELSE IF Gt(Re, Lit(4000, 0))
            THEN << <<"Flow is turbulent. Verify friction factor using Moody diagram or Colebrook equation.">> >>
            ELSE << >>
    IN  Body(<<f, L, D, V, hf, Re>>,
             CalculationResponse([value |-> hf, unit |-> "m"], inputs, steps,
                                 warnings, recommendations))

_calculate_darcy_weisbach(self, inputs) ==
    LET f  == GetItem(inputs, "f")
        L  == GetItem(inputs, "L")
        D  == GetItem(inputs, "D")
        V  == GetItem(inputs, "V")
        velocity_head == Div(Mul(V, V), Mul(Lit(2, 0), self.gravity))
        hf == Mul(Mul(f, Div(L, D)), velocity_head)
        Re == Div(Mul(V, D), self.kinematic_viscosity)
        steps ==
            << IntermediateStep("Calculate velocity head",
                                <<"V2/(2g) = {V}2/(2x{g})", V, self.gravity>>,
                                velocity_head),
               IntermediateStep("Calculate L/D ratio",
                                <<"L/D = {L}/{D}", L, D>>, Div(L, D)),
               IntermediateStep("Calculate Reynolds number",
                                <<"Re = VD/nu = {V}x{D}/{nu}", V, D,
                                  self.kinematic_viscosity>>, Re) >>
        warnings ==
            IF Lt(V, Lit(6, -1))
            THEN << <<"Velocity is low. Risk of sedimentation.">> >>
            ELSE IF Gt(V, Lit(3, 0))
            THEN << <<"Velocity is high. Risk of erosion and noise.">> >>
            ELSE << >>
        recommendations ==
            IF Lt(Re, Lit(2000, 0))
            THEN << <<"Flow is laminar. Consider using f = 64/Re.">> >>
            ELSE IF Gt(Re, Lit(4000, 0))
            THEN << <<"Flow is turbulent. Verify friction factor using Moody diagram or Colebrook equation.">> >>
            ELSE << >>
    IN  Body(<<f, L, D, V, hf, Re>>,
             CalculationResponse([value |-> hf, unit |-> "m"], inputs, steps,
                                 warnings, recommendations))

\* The evaluator with the velocity checks made before the check of C.
HazenWilliamsVelocityFirst(self, inputs) ==
    LET L  == GetItem(inputs, "L")
        Q  == GetItem(inputs, "Q")
        C  == GetItem(inputs, "C")
        D  == GetItem(inputs, "D")
        hf == Div(Mul(Mul(Lit(1067, -2), L), Pow(Q, 1, {1, 2, 4, 5, 7})),
                  Mul(Pow(C, 1, {1, 2, 4, 5, 7}), Pow(D, 4, {1, 2, 4, 5, 6, 7})))
        A  == Div(Mul(pi, Mul(D, D)), Lit(4, 0))
        V  == Div(Q, A)
        steps ==
            << IntermediateStep("Calculate pipe area",
                                <<"A = pi x D2/4 = pi x {D}2/4", D>>, A),
               IntermediateStep("Calculate velocity",
                                <<"V = Q/A = {Q}/{A}", Q, A>>, V) >>
        warnings ==
            LET w1 == AppendIf(<< >>, Lt(C, Lit(100, 0)),
                               <<"Low C value indicates old or rough pipes.">>)
            IN  IF Lt(V, Lit(6, -1))
                THEN << <<"Low velocity - risk of sedimentation.">> >> \o w1
                ELSE IF Gt(V, Lit(3, 0))
                THEN << <<"High velocity - risk of erosion.">> >> \o w1
                ELSE w1
        recommendations ==
            AppendIf(<< >>, ~Lt(C, Lit(100, 0)) /\ Gt(C, Lit(140, 0)),
                     <<"High C value - ensure it matches pipe material.">>)
    IN  Body(<<L, Q, C, D, hf, A, V>>,
             CalculationResponse([value |-> hf, unit |-> "m"], inputs, steps,
                                 warnings, recommendations))

_calculate_hazen_williams(self, inputs) ==
    LET L  == GetItem(inputs, "L")
        Q  == GetItem(inputs, "Q")
        C  == GetItem(inputs, "C")
        D  == GetItem(inputs, "D")
        hf == Div(Mul(Mul(Lit(1067, -2), L), Pow(Q, 1, {1, 2, 4, 5, 7})),
                  Mul(Pow(C, 1, {1, 2, 4, 5, 7}), Pow(D, 4, {1, 2, 4, 5, 6, 7})))
        A  == Div(Mul(pi, Mul(D, D)), Lit(4, 0))
        V  == Div(Q, A)
        steps ==
            << IntermediateStep("Calculate pipe area",
                                <<"A = pi x D2/4 = pi x {D}2/4", D>>, A),
               IntermediateStep("Calculate velocity",
                                <<"V = Q/A = {Q}/{A}", Q, A>>, V) >>
        warnings ==
            LET w1 == AppendIf(<< >>, Lt(C, Lit(100, 0)),
                               <<"Low C value indicates old or rough pipes.">>)
            IN  IF Lt(V, Lit(6, -1))
                THEN Append(w1, <<"Low velocity - risk of sedimentation.">>)
                ELSE IF Gt(V, Lit(3, 0))
                THEN Append(w1, <<"High velocity - risk of erosion.">>)
                ELSE w1
        recommendations ==
            AppendIf(<< >>, ~Lt(C, Lit(100, 0)) /\ Gt(C, Lit(140, 0)),
                     <<"High C value - ensure it matches pipe material.">>)
    IN  Body(<<L, Q, C, D, hf, A, V>>,
             CalculationResponse([value |-> hf, unit |-> "m"], inputs, steps,
                                 warnings, recommendations))

\* The evaluator with the high-velocity test taken as V >= 5.
ContinuityHighInclusive(self, inputs) ==
    LET A  == GetItem(inputs, "A")
        V  == GetItem(inputs, "V")
        Q  == Mul(A, V)
        D_equiv == Sqrt(Div(Mul(Lit(4, 0), A), pi))
        steps ==
            << IntermediateStep("Calculate flow rate",
                                <<"Q = AxV = {A}x{V}", A, V>>, Q),
               IntermediateStep("Calculate equivalent diameter",
                                <<"D = sqrt(4A/pi) = sqrt(4x{A}/pi)", A>>,
                                D_equiv) >>
        warnings ==
            IF Lt(V, Lit(3, -1))
            THEN << <<"Very low velocity - check for stagnation.">> >>
            ELSE IF ~Lt(V, Lit(5, 0))
            THEN << <<"Very high velocity - check pipe rating.">> >>
            ELSE << >>
    IN  Body(<<A, V, Q, D_equiv>>,
             CalculationResponse([value |-> Q, unit |-> "m3/s"], inputs, steps,
                                 warnings, << >>))

_calculate_continuity(self, inputs) ==
    LET A  == GetItem(inputs, "A")
        V  == GetItem(inputs, "V")
        Q  == Mul(A, V)
        D_equiv == Sqrt(Div(Mul(Lit(4, 0), A), pi))
        steps ==
            << IntermediateStep("Calculate flow rate",
                                <<"Q = AxV = {A}x{V}", A, V>>, Q),
               IntermediateStep("Calculate equivalent diameter",
                                <<"D = sqrt(4A/pi) = sqrt(4x{A}/pi)", A>>,
                                D_equiv) >>
        warnings ==
            IF Lt(V, Lit(3, -1))
            THEN << <<"Very low velocity - check for stagnation.">> >>
            ELSE IF Gt(V, Lit(5, 0))
            THEN << <<"Very high velocity - check pipe rating.">> >>
            ELSE << >>
    IN  Body(<<A, V, Q, D_equiv>>,
             CalculationResponse([value |-> Q, unit |-> "m3/s"], inputs, steps,
                                 warnings, << >>))

\* The evaluator with the check of Cd made an elif of the check of h.
OrificeFlowElif(self, inputs) ==
    LET Cd == GetItem(inputs, "Cd")
        A  == GetItem(inputs, "A")
        h  == GetItem(inputs, "h")
        Q  == Mul(Mul(Cd, A), Sqrt(Mul(Mul(Lit(2, 0), self.gravity), h)))
        V  == Sqrt(Mul(Mul(Lit(2, 0), self.gravity), h))
        steps ==
            << IntermediateStep("Calculate theoretical velocity",
                                <<"V = sqrt(2gh) = sqrt(2x{g}x{h})",
                                  self.gravity, h>>, V),
               IntermediateStep("Calculate theoretical flow",
                                <<"Q_theo = AxV = {A}x{V}", A, V>>,
                                Mul(A, V)) >>
        warnings ==
            AppendIf(<< >>, Lt(h, Lit(1, -1)),
                     <<"Very low head - results may be inaccurate.">>)
        recommendations ==
            AppendIf(<< >>, ~Lt(h, Lit(1, -1)) /\ Lt(Cd, Lit(6, -1)),
                     <<"Low discharge coefficient - check for sharp edges.">>)
    IN  Body(<<Cd, A, h, Q, V>>,
             CalculationResponse([value |-> Q, unit |-> "m3/s"], inputs, steps,
                                 warnings, recommendations))

_calculate_orifice_flow(self, inputs) ==
    LET Cd == GetItem(inputs, "Cd")
        A  == GetItem(inputs, "A")
        h  == GetItem(inputs, "h")
        Q  == Mul(Mul(Cd, A), Sqrt(Mul(Mul(Lit(2, 0), self.gravity), h)))
        V  == Sqrt(Mul(Mul(Lit(2, 0), self.gravity), h))
        steps ==
            << IntermediateStep("Calculate theoretical velocity",
                                <<"V = sqrt(2gh) = sqrt(2x{g}x{h})",
                                  self.gravity, h>>, V),
               IntermediateStep("Calculate theoretical flow",
                                <<"Q_theo = AxV = {A}x{V}", A, V>>,
                                Mul(A, V)) >>
        warnings ==
            AppendIf(<< >>, Lt(h, Lit(1, -1)),
                     <<"Very low head - results may be inaccurate.">>)
        recommendations ==
            AppendIf(<< >>, Lt(Cd, Lit(6, -1)),
                     <<"Low discharge coefficient - check for sharp edges.">>)
    IN  Body(<<Cd, A, h, Q, V>>,
             CalculationResponse([value |-> Q, unit |-> "m3/s"], inputs, steps,
                                 warnings, recommendations))

\* The evaluator with the motor size recommended before the power check.
PumpPowerMotorFirst(self, inputs) ==
    LET Q   == GetItem(inputs, "Q")
        H   == GetItem(inputs, "H")
        eta == GetItem(inputs, "eta")
        P_hydraulic == Mul(Mul(Mul(self.water_density, self.gravity), Q), H)
        P_shaft == Div(P_hydraulic, eta)
        P_kW == Div(P_shaft, Lit(1000, 0))
        steps ==
            << IntermediateStep("Calculate hydraulic power",
                                <<"P_hyd = rho g Q H = {rho}x{g}x{Q}x{H}",
                                  self.water_density, self.gravity, Q, H>>,
                                P_hydraulic),
               IntermediateStep("Calculate shaft power",
                                <<"P_shaft = P_hyd/eta = {P_hyd}/{eta}",
                                  P_hydraulic, eta>>, P_shaft) >>
        warnings ==
            AppendIf(<< >>, Lt(eta, Lit(5, -1)),
                     <<"Low pump efficiency - consider pump replacement.">>)
        motor_size == Mul(P_kW, Lit(115, -2))
        recommendations ==
            AppendIf(<< <<"Recommended motor size: {:.1f} kW",
                          Fmt(motor_size, 1)>> >>,
                     Gt(P_kW, Lit(100, 0)),
                     <<"High power requirement - consider multiple pumps.">>)
    IN  Body(<<Q, H, eta, P_hydraulic, P_shaft, P_kW>>,
             CalculationResponse([value |-> P_kW, unit |-> "kW"], inputs, steps,
                                 warnings, recommendations))

_calculate_pump_power(self, inputs) ==
    LET Q   == GetItem(inputs, "Q")
        H   == GetItem(inputs, "H")
        eta == GetItem(inputs, "eta")
        P_hydraulic == Mul(Mul(Mul(self.water_density, self.gravity), Q), H)
        P_shaft == Div(P_hydraulic, eta)
        P_kW == Div(P_shaft, Lit(1000, 0))
        steps ==
            << IntermediateStep("Calculate hydraulic power",
                                <<"P_hyd = rho g Q H = {rho}x{g}x{Q}x{H}",
                                  self.water_density, self.gravity, Q, H>>,
                                P_hydraulic),
               IntermediateStep("Calculate shaft power",
                                <<"P_shaft = P_hyd/eta = {P_hyd}/{eta}",
                                  P_hydraulic, eta>>, P_shaft) >>
        warnings ==
            AppendIf(<< >>, Lt(eta, Lit(5, -1)),
                     <<"Low pump efficiency - consider pump replacement.">>)
        motor_size == Mul(P_kW, Lit(115, -2))
        recommendations ==
            Append(AppendIf(<< >>, Gt(P_kW, Lit(100, 0)),
                            <<"High power requirement - consider multiple pumps.">>),
                   <<"Recommended motor size: {:.1f} kW", Fmt(motor_size, 1)>>)
    IN  Body(<<Q, H, eta, P_hydraulic, P_shaft, P_kW>>,
             CalculationResponse([value |-> P_kW, unit |-> "kW"], inputs, steps,
                                 warnings, recommendations))

\* The evaluator with the aspect ratio taken as D / H.
TankVolumeInverted(self, inputs) ==
    LET D  == GetItem(inputs, "D")
        H  == GetItem(inputs, "H")
        V  == Mul(Div(Mul(pi, Mul(D, D)), Lit(4, 0)), H)
        A_surface == Div(Mul(pi, Mul(D, D)), Lit(4, 0))
        V_liters == Mul(V, Lit(1000, 0))
        steps ==
            << IntermediateStep("Calculate tank area",
                                <<"A = pi x D2/4 = pi x {D}2/4", D>>, A_surface),
               IntermediateStep("Calculate volume in m3",
                                <<"V = AxH = {A}x{H}", A_surface, H>>, V),
               IntermediateStep("Convert to liters",
                                <<"V = {V}x1000", V>>, V_liters) >>
        aspect_ratio == Div(D, H)
        warnings ==
            IF Lt(aspect_ratio, Lit(5, -1))
            THEN << <<"Tank is very wide - check structural design.">> >>
            ELSE IF Gt(aspect_ratio, Lit(3, 0))
            THEN << <<"Tank is very tall - check stability.">> >>
            ELSE << >>
        recommendations ==
            << <<"Total capacity: {:.0f} liters", Fmt(V_liters, 0)>>,
               <<"Effective volume (95%): {:.0f} liters",
                 Fmt(Mul(V_liters, Lit(95, -2)), 0)>> >>
    IN  Body(<<D, H, V, A_surface, V_liters, aspect_ratio>>,
             CalculationResponse([value |-> V, unit |-> "m3"], inputs, steps,
                                 warnings, recommendations))

_calculate_tank_volume(self, inputs) ==
    LET D  == GetItem(inputs, "D")
        H  == GetItem(inputs, "H")
        V  == Mul(Div(Mul(pi, Mul(D, D)), Lit(4, 0)), H)
        A_surface == Div(Mul(pi, Mul(D, D)), Lit(4, 0))
        V_liters == Mul(V, Lit(1000, 0))
        steps ==
            << IntermediateStep("Calculate tank area",
                                <<"A = pi x D2/4 = pi x {D}2/4", D>>, A_surface),
               IntermediateStep("Calculate volume in m3",
                                <<"V = AxH = {A}x{H}", A_surface, H>>, V),
               IntermediateStep("Convert to liters",
                                <<"V = {V}x1000", V>>, V_liters) >>
        aspect_ratio == Div(H, D)
        warnings ==
            IF Lt(aspect_ratio, Lit(5, -1))
            THEN << <<"Tank is very wide - check structural design.">> >>
            ELSE IF Gt(aspect_ratio, Lit(3, 0))
            THEN << <<"Tank is very tall - check stability.">> >>
            ELSE << >>
        recommendations ==
            << <<"Total capacity: {:.0f} liters", Fmt(V_liters, 0)>>,
               <<"Effective volume (95%): {:.0f} liters",
                 Fmt(Mul(V_liters, Lit(95, -2)), 0)>> >>
    IN  Body(<<D, H, V, A_surface, V_liters, aspect_ratio>>,
             CalculationResponse([value |-> V, unit |-> "m3"], inputs, steps,
                                 warnings, recommendations))

\* The evaluator with the head-rise step given only when there is a surge.
WaterHammerHeadIfSurge(self, inputs) ==
    LET c  == GetItem(inputs, "c")
        dV == GetItem(inputs, "dV")
        dP == Mul(Mul(self.water_density, c), dV)
        dP_bar == Div(dP, Lit(100000, 0))
        dH == Div(dP, Mul(self.water_density, self.gravity))
        steps ==
            << IntermediateStep("Calculate pressure rise in Pa",
                                <<"dP = rho x c x dV = {rho}x{c}x{dV}",
                                  self.water_density, c, dV>>, dP),
               IntermediateStep("Convert to bar",
                                <<"dP = {dP}/100000", dP>>, dP_bar),
               IntermediateStep("Calculate head rise",
                                <<"dH = dP/(rho g) = {dP}/({rho}x{g})", dP,
                                  self.water_density, self.gravity>>, dH) >>
        surge == Gt(dP_bar, Lit(10, 0))
        warnings ==
            AppendIf(<< >>, surge,
                     <<"High pressure surge - risk of pipe damage!">>)
        L_critical == Mul(c, Lit(2, 0))
        recommendations ==
            Append(AppendIf(AppendIf(<< >>, surge,
                                     <<"Consider installing surge protection devices.">>),
                            Gt(dV, Lit(1, 0)),
                            <<"Large velocity change - use slow-closing valves.">>),
                   <<"Critical pipe length: {:.0f} m", Fmt(L_critical, 0)>>)
    IN  Body(<<c, dV, dP, dP_bar, dH>>,
             CalculationResponse([value |-> dP_bar, unit |-> "bar"], inputs,
                                 IF surge THEN steps ELSE SubSeq(steps, 1, 2),
                                 warnings, recommendations))

_calculate_water_hammer(self, inputs) ==
    LET c  == GetItem(inputs, "c")
        dV == GetItem(inputs, "dV")
        dP == Mul(Mul(self.water_density, c), dV)
        dP_bar == Div(dP, Lit(100000, 0))
        dH == Div(dP, Mul(self.water_density, self.gravity))
        steps ==
            << IntermediateStep("Calculate pressure rise in Pa",
                                <<"dP = rho x c x dV = {rho}x{c}x{dV}",
                                  self.water_density, c, dV>>, dP),
               IntermediateStep("Convert to bar",
                                <<"dP = {dP}/100000", dP>>, dP_bar),
               IntermediateStep("Calculate head rise",
                                <<"dH = dP/(rho g) = {dP}/({rho}x{g})", dP,
                                  self.water_density, self.gravity>>, dH) >>
        surge == Gt(dP_bar, Lit(10, 0))
        warnings ==
            AppendIf(<< >>, surge,
                     <<"High pressure surge - risk of pipe damage!">>)
        L_critical == Mul(c, Lit(2, 0))
        recommendations ==
            Append(AppendIf(AppendIf(<< >>, surge,
                                     <<"Consider installing surge protection devices.">>),
                            Gt(dV, Lit(1, 0)),
                            <<"Large velocity change - use slow-closing valves.">>),
                   <<"Critical pipe length: {:.0f} m", Fmt(L_critical, 0)>>)
    IN  Body(<<c, dV, dP, dP_bar, dH>>,
             CalculationResponse([value |-> dP_bar, unit |-> "bar"], inputs,
                                 steps, warnings, recommendations))

\* Evaluators that also read the water temperature, T, from their inputs.
ReadsTemperature(formula_id) == <<"T">>

\* The symbols each evaluator reads from its inputs, in the order of its
\* inputs[...] statements; none for an id that has no evaluator.
Reads(formula_id) ==
    CASE formula_id = "darcy_weisbach" -> <<"f", "L", "D", "V">>
      [] formula_id = "hazen_williams" -> <<"L", "Q", "C", "D">>
      [] formula_id = "continuity_equation" -> <<"A", "V">>
      [] formula_id = "orifice_flow" -> <<"Cd", "A", "h">>
      [] formula_id = "pump_power" -> <<"Q", "H", "eta">>
      [] formula_id = "tank_volume" -> <<"D", "H">>
      [] formula_id = "water_hammer_pressure" -> <<"c", "dV">>
      [] OTHER -> << >>

\* The chain without its else branch: an id that matches none of the
\* seven is handled by the last evaluator.
RouteWithoutElse(self, formula_id, si_inputs) ==
    IF formula_id = "darcy_weisbach"
    THEN _calculate_darcy_weisbach(self, si_inputs)
    ELSE IF formula_id = "hazen_williams"
    THEN _calculate_hazen_williams(self, si_inputs)
    ELSE IF formula_id = "continuity_equation"
    THEN _calculate_continuity(self, si_inputs)
    ELSE IF formula_id = "orifice_flow"
    THEN _calculate_orifice_flow(self, si_inputs)
    ELSE IF formula_id = "pump_power"
    THEN _calculate_pump_power(self, si_inputs)
    ELSE IF formula_id = "tank_volume"
    THEN _calculate_tank_volume(self, si_inputs)
    ELSE _calculate_water_hammer(self, si_inputs)

\* A chain that looks the evaluator up by the formula's category: the first
\* evaluator of the category serves every id of it.
RouteByCategory(self, formula_id, si_inputs) ==
    IF formula_id \in {"darcy_weisbach", "hazen_williams"}
    THEN _calculate_darcy_weisbach(self, si_inputs)
    ELSE IF formula_id \in {"continuity_equation", "orifice_flow"}
    THEN _calculate_continuity(self, si_inputs)
    ELSE IF formula_id = "pump_power"
    THEN _calculate_pump_power(self, si_inputs)
    ELSE IF formula_id = "tank_volume"
    THEN _calculate_tank_volume(self, si_inputs)
    ELSE IF formula_id = "water_hammer_pressure"
    THEN _calculate_water_hammer(self, si_inputs)
    ELSE [kind |-> "raise", exc |-> "ValueError",
          arg |-> "Unknown formula ID: " \o formula_id]

\* The if/elif chain of calculate, lines 278-293.
Route(self, formula_id, si_inputs) ==
    IF formula_id = "darcy_weisbach"
    THEN _calculate_darcy_weisbach(self, si_inputs)
    ELSE IF formula_id = "hazen_williams"
    THEN _calculate_hazen_williams(self, si_inputs)
    ELSE IF formula_id = "continuity_equation"
    THEN _calculate_continuity(self, si_inputs)
    ELSE IF formula_id = "orifice_flow"
    THEN _calculate_orifice_flow(self, si_inputs)
    ELSE IF formula_id = "pump_power"
    THEN _calculate_pump_power(self, si_inputs)
    ELSE IF formula_id = "tank_volume"
    THEN _calculate_tank_volume(self, si_inputs)
    ELSE IF formula_id = "water_hammer_pressure"
    THEN _calculate_water_hammer(self, si_inputs)
    ELSE [kind |-> "raise", exc |-> "ValueError",
          arg |-> "Unknown formula ID: " \o formula_id]

\* calculate(formula_id, inputs) as a function of the calculator's fields.
calculate(self, formula_id, inputs) ==
    Route(self, formula_id, _convert_to_si(inputs))

(***************************************************************************)
(* Callers and their inputs                                                 *)
(***************************************************************************)

\* The number of threads that may be inside calculate at once.
NumThreads == 2

Threads == 1 .. NumThreads

\* One item of an inputs dict: param -> {'value': value, 'unit': unit}.
Entry(param, m, e, unit) == [param |-> param, value |-> Lit(m, e), unit |-> unit]

\* The item present with one of the given data, or absent.
Optional(entries) == {<< >>} \cup {<<x>> : x \in entries}

\* The dicts that take one choice for each position, in this order.
RECURSIVE Dicts(_, _)
Dicts(choices, k) ==
    IF k > Len(choices) THEN {<< >>}
    ELSE {a \o b : a \in choices[k], b \in Dicts(choices, k + 1)}

Calls(formula_id, choices) ==
    {[formula_id |-> formula_id, inputs |-> d] : d \in Dicts(choices, 1)}

\* An item no formula reads, in a unit the converter does not know.
Unused == Optional({Entry("T", 20, 0, "degC")})

DarcyCalls ==
    Calls("darcy_weisbach",
          << Optional({Entry("f", 2, -2, "-")}),
             Optional({Entry("L", 100, 0, "m"), Entry("L", 1, 0, "km")}),
             Optional({Entry("D", 15, -2, "m"), Entry("D", 0, 0, "m"),
                       Entry("D", 150, 0, "mm"), Entry("D", 5, -3, "m"),
                       Entry("D", 1003, -3, "mm")}),
             Optional({Entry("V", 5, -1, "m/s"), Entry("V", 6, -1, "m/s"),
                       Entry("V", 2, 0, "m/s"), Entry("V", 3, 0, "m/s"),
                       Entry("V", 35, -1, "m/s"), Entry("V", 10, 0, "ft/s"),
                       Entry("V", 6, 0, "m/s"), Entry("V", 4, 0, "m/s")}),
             Unused >>)

HazenCalls ==
    Calls("hazen_williams",
          << Optional({Entry("L", 100, 0, "m"), Entry("L", 300, 0, "ft")}),
             Optional({Entry("Q", 5, -2, "m3/s"), Entry("Q", 50, 0, "L/s"),
                       Entry("Q", -5, -2, "m3/s"), Entry("Q", 0, 0, "m3/s"),
                       Entry("Q", 100, 0, "gpm"), Entry("Q", 4713, -4, "m3/s"),
                       Entry("Q", 9426, -3, "m3/s")}),
             Optional({Entry("C", 130, 0, "-"), Entry("C", 90, 0, "-"),
                       Entry("C", 100, 0, "-"), Entry("C", 140, 0, "-"),
                       Entry("C", 150, 0, "-"), Entry("C", 0, 0, "-")}),
             Optional({Entry("D", 15, -2, "m"), Entry("D", 0, 0, "m"),
                       Entry("D", 6, 0, "in"), Entry("D", 1, 0, "m"),
                       Entry("D", 2, 0, "m")}),
             Unused >>)

ContinuityCalls ==
    Calls("continuity_equation",
          << Optional({Entry("A", 177, -4, "m2"), Entry("A", 177, 0, "cm2"),
                       Entry("A", -1, 0, "m2"), Entry("A", 0, 0, "m2"),
                       Entry("A", 1, 0, "ft2")}),
             Optional({Entry("V", 2, 0, "m/s"), Entry("V", 2, -1, "m/s"),
                       Entry("V", 3, -1, "m/s"), Entry("V", 5, 0, "m/s"),
                       Entry("V", 6, 0, "m/s"), Entry("V", 1, 0, "ft/s")}),
             Unused >>)

OrificeCalls ==
    Calls("orifice_flow",
          << Optional({Entry("Cd", 62, -2, "-"), Entry("Cd", 5, -1, "-"),
                       Entry("Cd", 6, -1, "-"), Entry("Cd", 9, -1, "-")}),
             Optional({Entry("A", 5, -3, "m2"), Entry("A", 50, 0, "cm2"),
                       Entry("A", 1, 0, "in2")}),
             Optional({Entry("h", 2, 0, "m"), Entry("h", -2, 0, "m"),
                       Entry("h", 0, 0, "m"), Entry("h", 5, -2, "m"),
                       Entry("h", 1, -1, "m"), Entry("h", 2, 0, "ft")}),
             Unused >>)

PumpCalls ==
    Calls("pump_power",
          << Optional({Entry("Q", 5, -2, "m3/s"), Entry("Q", 50, 0, "L/s"),
                       Entry("Q", 1, 0, "m3/s"), Entry("Q", 500, 0, "gpm")}),
             Optional({Entry("H", 30, 0, "m"), Entry("H", 100, 0, "ft"),
                       Entry("H", 10, 0, "m")}),
             Optional({Entry("eta", 75, -2, "-"), Entry("eta", 0, 0, "-"),
                       Entry("eta", 981, -3, "-"),
                       Entry("eta", 5, -1, "-"), Entry("eta", 4, -1, "-"),
                       Entry("eta", 95, -2, "-")}),
             Unused >>)

TankCalls ==
    Calls("tank_volume",
          << Optional({Entry("D", 3, 0, "m"), Entry("D", 0, 0, "m"),
                       Entry("D", 10, 0, "ft"), Entry("D", 8, 0, "m"),
                       Entry("D", 1, 0, "m")}),
             Optional({Entry("H", 4, 0, "m"), Entry("H", 15, -1, "m"),
                       Entry("H", 9, 0, "m"), Entry("H", 0, 0, "m"),
                       Entry("H", 10, 0, "ft")}),
             Unused >>)

WaterHammerCalls ==
    Calls("water_hammer_pressure",
          << Optional({Entry("c", 1200, 0, "m/s"), Entry("c", 500, 0, "m/s"),
                       Entry("c", 4000, 0, "ft/s"), Entry("c", 1000, 0, "ft/s")}),
             Optional({Entry("dV", 2, 0, "m/s"), Entry("dV", 1, 0, "m/s"),
                       Entry("dV", 5, -1, "m/s"), Entry("dV", 5, 0, "ft/s")}),
             Unused >>)

CatalogCalls ==
    DarcyCalls \cup HazenCalls \cup ContinuityCalls \cup OrificeCalls
        \cup PumpCalls \cup TankCalls \cup WaterHammerCalls

\* Ids that are not in the catalog, each with the inputs of every call above.
UnknownIds == {"not_a_formula", "", "Darcy_Weisbach", "tank"}

UnknownCalls ==
    {[formula_id |-> id, inputs |-> c.inputs] :
        id \in UnknownIds,
        c \in ContinuityCalls \cup TankCalls \cup WaterHammerCalls}

\* Calls of the two flow formulas whose inputs carry the symbols of both.
SharedCalls ==
    {[formula_id |-> id, inputs |-> d] :
        id \in {"continuity_equation", "orifice_flow"},
        d \in Dicts(<< {<<Entry("A", 5, -3, "m2")>>, <<Entry("A", 50, 0, "cm2")>>},
                       {<<Entry("V", 2, 0, "m/s")>>, <<Entry("V", 10, 0, "ft/s")>>},
                       {<<Entry("Cd", 62, -2, "-")>>},
                       {<<Entry("h", 2, 0, "m")>>, <<Entry("h", 2, 0, "ft")>>} >>, 1)}

AllCalls == CatalogCalls \cup UnknownCalls \cup SharedCalls

\* The unit strings the converter's chain tests for.
RecognizedUnits ==
    {"ft", "km", "mm", "in", "cm", "cm2", "ft2", "in2", "L/s", "gpm", "ft/s"}

\* Base and dimensionless labels, and strings that are no unit of the table.
OtherUnits == {"m", "m2", "m/s", "m3/s", "-", "", "yd", "FT", "degC"}

UnitValues ==
    {Lit(100, 0), Lit(1, 0), Lit(5, -2), Lit(-25, -1), Lit(0, 0),
     Lit(3333, -3), Lit(9999, 0), Lit(177, -4), Lit(1234, -6)}

\* Calls whose two items carry the same value and unit on different symbols
\* (a length, an area, a velocity), or differ in both.
UnitCalls ==
    {[formula_id |-> id,
      inputs |-> << [param |-> p, value |-> v, unit |-> u],
                    [param |-> q,
                     value |-> IF same THEN v ELSE Lit(2, 0),
                     unit |-> IF same THEN u ELSE "m"] >>] :
        id \in {"tank_volume", "continuity_equation", "not_a_formula"},
        p \in {"D", "A"},
        q \in {"H", "V"},
        v \in UnitValues,
        u \in RecognizedUnits \cup OtherUnits,
        same \in BOOLEAN}

\* A few calls of two formulas that share no symbol but differ in what
\* they lack, for the sequences and interleavings of calls.
SeqCalls ==
    Calls("tank_volume",
          << Optional({Entry("D", 3, 0, "m"), Entry("D", 10, 0, "ft")}),
             Optional({Entry("H", 4, 0, "m")}) >>)
    \cup Calls("continuity_equation",
               << Optional({Entry("A", 177, -4, "m2")}),
                  Optional({Entry("V", 2, 0, "m/s"), Entry("V", 6, 0, "m/s")}) >>)
    \cup Calls("pump_power",
               << {<<Entry("Q", 5, -2, "m3/s")>>},
                  Optional({Entry("H", 30, 0, "m")}),
                  {<<Entry("eta", 75, -2, "-")>>} >>)
    \cup {[formula_id |-> "not_a_formula", inputs |-> << >>]}

\* The calls made between listings of the catalog.
ListCalls ==
    {[formula_id |-> "tank_volume",
      inputs |-> <<Entry("D", 3, 0, "m"), Entry("H", 4, 0, "m")>>],
     [formula_id |-> "not_a_formula", inputs |-> << >>]}

\* The text of a command-line argument, by what json.loads makes of it: a
\* dict (value), a list, or a JSONDecodeError ("text").
Json(kind, value) == [kind |-> kind, value |-> value]

\* The calculations asked for on the command line.
MainCalls ==
    SeqCalls
    \cup Calls("hazen_williams",
               << {<<Entry("L", 100, 0, "m")>>},
                  {<<Entry("Q", 5, -2, "m3/s")>>, <<Entry("Q", -50, 0, "L/s")>>},
                  {<<Entry("C", 130, 0, "-")>>},
                  {<<Entry("D", 15, -2, "m")>>, <<Entry("D", 0, 0, "m")>>} >>)

\* The command lines: sys.argv[0] is the script, then the arguments.
ArgvSet ==
    LET script == "hydraulicCalculator.py"
        text == Json("text", << >>)
    IN  {<<script>>}
        \cup {<<script, command>> :
                 command \in {"formulas", "calculate", "list", ""}}
        \cup {<<script, command, "tank_volume">> :
                 command \in {"formulas", "calculate", "list"}}
        \cup {<<script, "calculate", call.formula_id,
                Json("dict", call.inputs)>> : call \in MainCalls}
        \cup {<<script, command, "tank_volume", json>> :
                 command \in {"formulas", "calculate", "list"},
                 json \in {text, Json("list", << >>), Json("dict", << >>)}}

(***************************************************************************)
(* The state machine                                                        *)
(***************************************************************************)

VARIABLES
    self,        \* the calculator's fields
    pc,          \* pc[t]: where thread t is in its call
    formula_id,  \* formula_id[t], inputs[t]: the arguments of t's call
    inputs,
    idx,         \* idx[t]: the item of inputs the conversion loop is at
    si_values,   \* si_values[frame]: the local dict of _convert_to_si
    outcome,     \* outcome[t]: what t's call returned or raised
    heap,        \* the list objects get_formulas has returned, by reference
    held,        \* held[t]: the reference get_formulas last returned to t
    ncalls,      \* the number of calculate calls made so far
    memo,        \* one earlier call and its outcome, kept for comparison
    argv,        \* sys.argv of the run of the command-line entry point
    at,          \* where main is
    caught,      \* str(e) of the exception main's try statement caught
    stdout,      \* what the run has printed
    wntr_service,\* the fields of the network-model service instance
    disk,        \* the paths of the files that exist
    called,      \* the service method called last and its arguments
    returned,    \* what that call returned or raised
    was_set      \* current_model has been assigned a model

calc_vars == <<self, pc, formula_id, inputs, idx, si_values, outcome>>

list_vars == <<heap, held>>

ghost_vars == <<ncalls, memo>>

main_vars == <<argv, at, caught, stdout>>

wntr_vars == <<wntr_service, disk, called, returned, was_set>>

vars == <<self, pc, formula_id, inputs, idx, si_values, outcome, heap, held,
          ncalls, memo, argv, at, caught, stdout,
          wntr_service, disk, called, returned, was_set>>

None == [kind |-> "none"]

\* WNTRService.__init__: the three fields of a new service.
WNTRService ==
    [current_model |-> None, model_path |-> None, temp_file_path |-> None]

\* A str object.
Path(s) == [kind |-> "str", s |-> s]

\* The INP files the service is asked to load: 'backdrop' says the file has
\* a UNITS line in its [BACKDROP] section that the preprocessing rewrites,
\* 'error' is the message of the exception the network library raises on
\* the rest of the content ("" when it builds a model).
InpFiles ==
    [path \in {"nets/net.inp", "old.inp", "units.inp", "text.inp",
               "bad.inp", "gone.inp"} |->
        CASE path = "old.inp"   -> [backdrop |-> TRUE, error |-> ""]
          [] path = "units.inp" ->
                 [backdrop |-> FALSE,
                  error |-> "Backdrop units must be FEET or METERS"]
          [] path = "text.inp"  ->
                 [backdrop |-> FALSE,
                  error |-> "expected string or bytes-like object"]
          [] path = "bad.inp"   ->
                 [backdrop |-> TRUE, error |-> "list index out of range"]
          [] OTHER              -> [backdrop |-> FALSE, error |-> ""]]

\* The files that exist when the service is created.
InitialDisk == DOMAIN InpFiles \ {"gone.inp"}

\* The frame that holds thread t's local variables: each call has its own.
FrameShared(t) == 1

Frame(t) == t

\* A dict that outlives the call (a mutable default argument, an attribute
\* of the calculator): what it held is still there.
KeptDict(old) == old

\* si_values = {}  (line 297): a new dict, whatever the frame held before.
NewDict(old) == EmptyDict

Init ==
    /\ self = __init__
    /\ pc = [t \in Threads |-> "idle"]
    /\ formula_id = [t \in Threads |-> ""]
    /\ inputs = [t \in Threads |-> << >>]
    /\ idx = [t \in Threads |-> 1]
    /\ si_values = [t \in Threads |-> EmptyDict]
    /\ outcome = [t \in Threads |-> None]
    /\ heap = << >>
    /\ held = [t \in Threads |-> 0]
    /\ ncalls = 0
    /\ memo = None
    /\ argv = << >>
    /\ at = "exit"
    /\ caught = ""
    /\ stdout = << >>
    /\ wntr_service = WNTRService
    /\ disk = InitialDisk
    /\ called = None
    /\ returned = None
    /\ was_set = FALSE

\* Thread t calls calculate(call.formula_id, call.inputs): line 275 enters
\* _convert_to_si, which creates its dict.
Enter(t, call) ==
    /\ pc[t] \in {"idle", "done", "listed"}
    /\ pc' = [pc EXCEPT ![t] = "convert"]
    /\ formula_id' = [formula_id EXCEPT ![t] = call.formula_id]
    /\ inputs' = [inputs EXCEPT ![t] = call.inputs]
    /\ idx' = [idx EXCEPT ![t] = 1]
    /\ si_values' = [si_values EXCEPT ![Frame(t)] = NewDict(si_values[Frame(t)])]
    /\ outcome' = [outcome EXCEPT ![t] = None]
    /\ UNCHANGED <<self, heap, held>>

\* An iteration that converts in place: data['value'] is assigned the
\* converted value, in the caller's own map, before it is stored.
ConvertStepInPlace(t) ==
    /\ pc[t] = "convert"
    /\ idx[t] <= Len(inputs[t])
    /\ si_values' = [si_values EXCEPT
                        ![Frame(t)] = ConvertEntry(@, inputs[t][idx[t]])]
    /\ inputs' = [inputs EXCEPT
                     ![t][idx[t]].value = Convert(@, inputs[t][idx[t]].unit)]
    /\ idx' = [idx EXCEPT ![t] = @ + 1]
    /\ UNCHANGED <<self, pc, formula_id, outcome, heap, held>>

\* One iteration of the loop of _convert_to_si (lines 299-333).
ConvertStep(t) ==
    /\ pc[t] = "convert"
    /\ idx[t] <= Len(inputs[t])
    /\ si_values' = [si_values EXCEPT
                        ![Frame(t)] = ConvertEntry(@, inputs[t][idx[t]])]
    /\ idx' = [idx EXCEPT ![t] = @ + 1]
    /\ UNCHANGED <<self, pc, formula_id, inputs, outcome, heap, held>>

\* A calculate that validates: a catalog id whose normalized input lies
\* outside its parameter's range is rejected before any evaluator runs.
DispatchValidating(t) ==
    /\ pc[t] = "convert"
    /\ idx[t] > Len(inputs[t])
    /\ outcome' = [outcome EXCEPT
                      ![t] = IF formula_id[t] \in {FormulaList[n].id : n \in 1 .. 7}
                                /\ OutOfRange(formula_id[t], si_values[Frame(t)])
                             THEN [kind |-> "raise", exc |-> "ValueError",
                                   arg |-> "value out of range"]
                             ELSE Route(self, formula_id[t], si_values[Frame(t)])]
    /\ pc' = [pc EXCEPT ![t] = "done"]
    /\ UNCHANGED <<self, formula_id, inputs, idx, si_values, heap, held>>

\* A calculate that looks at formula_id first: an id that has no evaluator
\* is rejected wherever the conversion loop is.
DispatchEager(t) ==
    /\ pc[t] = "convert"
    /\ \/ idx[t] > Len(inputs[t])
       \/ formula_id[t] \notin {FormulaList[n].id : n \in 1 .. 7}
    /\ outcome' = [outcome EXCEPT
                      ![t] = Route(self, formula_id[t], si_values[Frame(t)])]
    /\ pc' = [pc EXCEPT ![t] = "done"]
    /\ UNCHANGED <<self, formula_id, inputs, idx, si_values, heap, held>>

\* The loop is over: _convert_to_si returns its dict, and calculate routes
\* it to the evaluator, whose return value or exception ends the call.
Dispatch(t) ==
    /\ pc[t] = "convert"
    /\ idx[t] > Len(inputs[t])
    /\ outcome' = [outcome EXCEPT
                      ![t] = Route(self, formula_id[t], si_values[Frame(t)])]
    /\ pc' = [pc EXCEPT ![t] = "done"]
    /\ UNCHANGED <<self, formula_id, inputs, idx, si_values, heap, held>>

\* The caller has taken the outcome; the call's frame is gone.
Return(t) ==
    /\ pc[t] = "done"
    /\ pc' = [pc EXCEPT ![t] = "idle"]
    /\ formula_id' = [formula_id EXCEPT ![t] = ""]
    /\ inputs' = [inputs EXCEPT ![t] = << >>]
    /\ idx' = [idx EXCEPT ![t] = 1]
    /\ si_values' = [si_values EXCEPT ![Frame(t)] = EmptyDict]
    /\ outcome' = [outcome EXCEPT ![t] = None]
    /\ UNCHANGED <<self, heap, held>>

\* The number of list objects the model lets get_formulas create.
MaxLists == 2

\* A list object kept by the calculator and handed out again: the first
\* one it built.
CachedList(objects) == 1

\* The reference of the list get_formulas returns: the list literal of
\* line 63 is a new object on every call.
NewList(objects) == Len(objects) + 1

\* Thread t calls get_formulas(), which returns its list.
GetFormulas(t) ==
    /\ pc[t] \in {"idle", "done", "listed"}
    /\ NewList(heap) <= MaxLists
    /\ heap' = IF NewList(heap) > Len(heap)
               THEN Append(heap, FormulaList)
               ELSE heap
    /\ held' = [held EXCEPT ![t] = NewList(heap)]
    /\ pc' = [pc EXCEPT ![t] = "listed"]
    /\ UNCHANGED <<self, formula_id, inputs, idx, si_values, outcome>>

\* What a caller may do to a list it holds: formulas.pop(), or
\* formulas[0]['id'] = 'tampered'.
Edits(list) ==
    IF list = << >> THEN {}
    ELSE {SubSeq(list, 1, Len(list) - 1),
          [list EXCEPT ![1] = [@ EXCEPT !.id = "tampered"]]}

\* Thread t modifies the list that get_formulas returned to it.
Mutate(t) ==
    /\ pc[t] \in {"idle", "done", "listed"}
    /\ held[t] # 0
    /\ \E edited \in Edits(heap[held[t]]) :
           heap' = [heap EXCEPT ![held[t]] = edited]
    /\ pc' = [pc EXCEPT ![t] = "idle"]
    /\ UNCHANGED <<self, formula_id, inputs, idx, si_values, outcome, held>>

\* One caller, one call at a time, over every call of AllCalls.
Next ==
    /\ \/ pc[1] = "idle" /\ \E call \in AllCalls : Enter(1, call)
       \/ ConvertStep(1)
       \/ Dispatch(1)
       \/ Return(1)
    /\ UNCHANGED ghost_vars
    /\ UNCHANGED main_vars
    /\ UNCHANGED wntr_vars

Spec == Init /\ [][Next]_vars

\* One caller, over the calls that vary the unit strings.
NextUnits ==
    /\ \/ pc[1] = "idle" /\ \E call \in UnitCalls : Enter(1, call)
       \/ ConvertStep(1)
       \/ Dispatch(1)
       \/ Return(1)
    /\ UNCHANGED ghost_vars
    /\ UNCHANGED main_vars
    /\ UNCHANGED wntr_vars

SpecUnits == Init /\ [][NextUnits]_vars

\* The number of calls in a sequence of calls.
MaxCalls == 3

\* The observer keeps one finished call and its outcome, and when it ended.
Remember(t) ==
    /\ pc[t] = "done"
    /\ memo = None
    /\ memo' = [formula_id |-> formula_id[t], inputs |-> inputs[t],
                outcome |-> outcome[t], at |-> ncalls]
    /\ UNCHANGED <<self, pc, formula_id, inputs, idx, si_values, outcome,
                   heap, held, ncalls>>

\* One caller makes up to MaxCalls calls of SeqCalls, one after the other,
\* the next straight after the last or after letting its outcome go.
NextSeq ==
    /\ \/ /\ ncalls < MaxCalls
          /\ \E call \in SeqCalls : Enter(1, call)
          /\ ncalls' = ncalls + 1
          /\ UNCHANGED memo
       \/ /\ ConvertStep(1) \/ Dispatch(1) \/ Return(1)
          /\ UNCHANGED ghost_vars
       \/ Remember(1)
    /\ UNCHANGED main_vars
    /\ UNCHANGED wntr_vars

SpecSeq == Init /\ [][NextSeq]_vars

\* The threads call concurrently: any thread takes the next step.
NextConc ==
    /\ \E t \in Threads :
          \/ pc[t] = "idle" /\ \E call \in SeqCalls : Enter(t, call)
          \/ ConvertStep(t)
          \/ Dispatch(t)
          \/ Return(t)
    /\ UNCHANGED ghost_vars
    /\ UNCHANGED main_vars
    /\ UNCHANGED wntr_vars

SpecConc == Init /\ [][NextConc]_vars

\* One caller lists the formulas, modifies the lists it got, and calculates.
NextCatalog ==
    /\ \/ GetFormulas(1)
       \/ Mutate(1)
       \/ \E call \in ListCalls : Enter(1, call)
       \/ ConvertStep(1)
       \/ Dispatch(1)
    /\ UNCHANGED ghost_vars
    /\ UNCHANGED main_vars
    /\ UNCHANGED wntr_vars

SpecCatalog == Init /\ [][NextCatalog]_vars

(***************************************************************************)
(* The command-line entry point, main (lines 681-733)                       *)
(***************************************************************************)

\* print(json.dumps(envelope))
Printed(envelope) == Append(stdout, envelope)

\* CalculationResponse.to_dict
to_dict(response) ==
    [result |-> response.result,
     inputs |-> response.inputs,
     intermediateSteps |-> response.intermediate_steps,
     warnings |-> response.warnings,
     recommendations |-> response.recommendations]

\* json.dumps takes floats and raises TypeError on a complex number.
Serializable(response) ==
    /\ IsReal(response.result.value)
    /\ \A n \in 1 .. Len(response.intermediate_steps) :
          IsReal(response.intermediate_steps[n].result)

\* str(e): a KeyError prints the repr of its key, the others their message.
Str(e) == IF e.exc = "KeyError" THEN "'" \o e.arg \o "'" ELSE e.arg

\* The process starts: sys.argv is args, and main builds its calculator.
Run(args) ==
    /\ at = "exit"
    /\ argv = << >>
    /\ argv' = args
    /\ at' = "main"
    /\ self' = __init__
    /\ UNCHANGED <<pc, formula_id, inputs, idx, si_values, outcome, heap, held,
                   caught, stdout>>

\* if len(sys.argv) < 2  (lines 685-690)
NoCommand ==
    /\ at = "main"
    /\ Len(argv) < 2
    /\ stdout' = Printed([success |-> FALSE, error |-> "No command specified"])
    /\ at' = "exit"
    /\ UNCHANGED <<calc_vars, list_vars, argv, caught>>

\* if command == 'formulas'  (lines 695-701)
Formulas ==
    /\ at = "main"
    /\ Len(argv) >= 2
    /\ argv[2] = "formulas"
    /\ stdout' = Printed([success |-> TRUE, data |-> FormulaList])
    /\ at' = "exit"
    /\ UNCHANGED <<calc_vars, list_vars, argv, caught>>

\* elif command == 'calculate': if len(sys.argv) < 4  (lines 703-709)
MissingArguments ==
    /\ at = "main"
    /\ Len(argv) >= 2
    /\ argv[2] = "calculate"
    /\ Len(argv) < 4
    /\ stdout' = Printed([success |-> FALSE,
                          error |-> "Missing formula_id and inputs"])
    /\ at' = "exit"
    /\ UNCHANGED <<calc_vars, list_vars, argv, caught>>

\* else  (lines 723-727)
UnknownCommand ==
    /\ at = "main"
    /\ Len(argv) >= 2
    /\ argv[2] \notin {"formulas", "calculate"}
    /\ stdout' = Printed([success |-> FALSE,
                          error |-> "Unknown command: " \o argv[2]])
    /\ at' = "exit"
    /\ UNCHANGED <<calc_vars, list_vars, argv, caught>>

\* json.loads outside the try statement: its exception ends the process
\* with a traceback and nothing on stdout.
LoadsOutsideTry ==
    /\ at = "main"
    /\ Len(argv) >= 4
    /\ argv[2] = "calculate"
    /\ IF argv[4].kind = "dict"
       THEN /\ Enter(1, [formula_id |-> argv[3], inputs |-> argv[4].value])
            /\ at' = "calculate"
            /\ UNCHANGED <<argv, caught, stdout>>
       ELSE /\ at' = "exit"
            /\ UNCHANGED <<calc_vars, list_vars, argv, caught, stdout>>

\* inputs = json.loads(sys.argv[3]), and calculate is entered (lines
\* 711-715). A text that is no JSON raises in json.loads; one that is JSON
\* but no object raises in _convert_to_si at inputs.items() (line 299).
Loads ==
    /\ at = "main"
    /\ Len(argv) >= 4
    /\ argv[2] = "calculate"
    /\ IF argv[4].kind = "dict"
       THEN /\ Enter(1, [formula_id |-> argv[3], inputs |-> argv[4].value])
            /\ at' = "calculate"
            /\ UNCHANGED <<argv, caught, stdout>>
       ELSE /\ at' = "except"
            /\ caught' = IF argv[4].kind = "list"
                         THEN "'list' object has no attribute 'items'"
                         ELSE "Expecting value: line 1 column 1 (char 0)"
            /\ UNCHANGED <<calc_vars, list_vars, argv, stdout>>

\* calculate has ended: its exception, or the TypeError of json.dumps on
\* its response, goes to the except clause; otherwise the envelope with
\* response.to_dict() is printed (lines 715-721).
Respond ==
    /\ at = "calculate"
    /\ pc[1] = "done"
    /\ IF outcome[1].kind = "raise"
       THEN /\ at' = "except"
            /\ caught' = Str(outcome[1])
            /\ UNCHANGED stdout
       ELSE IF ~Serializable(outcome[1])
       THEN /\ at' = "except"
            /\ caught' = "Object of type complex is not JSON serializable"
            /\ UNCHANGED stdout
       ELSE /\ stdout' = Printed([success |-> TRUE,
                                  data |-> to_dict(outcome[1])])
            /\ at' = "exit"
            /\ UNCHANGED caught
    /\ UNCHANGED <<calc_vars, list_vars, argv>>

\* except Exception as e  (lines 729-733)
Except ==
    /\ at = "except"
    /\ stdout' = Printed([success |-> FALSE, error |-> caught])
    /\ at' = "exit"
    /\ UNCHANGED <<calc_vars, list_vars, argv, caught>>

\* One run of the program on each command line of ArgvSet.
NextMain ==
    /\ \/ \E args \in ArgvSet : Run(args)
       \/ NoCommand
       \/ Formulas
       \/ MissingArguments
       \/ UnknownCommand
       \/ Loads
       \/ /\ at = "calculate"
          /\ ConvertStep(1) \/ Dispatch(1)
          /\ UNCHANGED main_vars
       \/ Respond
       \/ Except
    /\ UNCHANGED ghost_vars
    /\ UNCHANGED wntr_vars

SpecMain == Init /\ [][NextMain]_vars

(***************************************************************************)
(* The network-model service                                                *)
(***************************************************************************)

\* The places where a collaborator (the file system, the network library)
\* may raise during a call, and the sets of them a call is run against:
\* none, each alone, and the pairs in which one bears on the other.
Faults ==
    {"write", "nodes", "links", "options", "coordinates", "patterns",
     "remove"}

FaultSets ==
    {{}} \cup {{f} : f \in Faults}
         \cup {{"write", "remove"}, {"nodes", "remove"},
               {"coordinates", "patterns"}}

\* The kinds of warning the library may emit while it builds a model.
WarningSets ==
    {{}, {"headloss_change"}, {"headloss_change", "unused_curves"}}

\* needle in s
Contains(s, needle) ==
    \E i \in 1 .. (Len(s) - Len(needle) + 1) :
        SubSeq(s, i, i + Len(needle) - 1) = needle

\* os.path.basename
Basename(path) ==
    LET slashes == {i \in 1 .. Len(path) : SubSeq(path, i, i) = "/"}
    IN  IF slashes = {} THEN path
        ELSE SubSeq(path, (CHOOSE i \in slashes :
                              \A j \in slashes : j <= i) + 1, Len(path))

Returned(value) == [kind |-> "return", value |-> value]

\* The envelope of the guard 'if not self.current_model'.
NoModelLoaded == [success |-> FALSE, error |-> "No model loaded"]

\* _preprocess_inp_file: rewrites an invalid backdrop unit into a temporary
\* file next to the original; any exception is swallowed.
_preprocess_inp_file(svc, dsk, file_path, faults) ==
    IF file_path \notin dsk \/ ~InpFiles[file_path].backdrop
    THEN [svc |-> svc, disk |-> dsk]
    ELSE IF "write" \in faults
    THEN [svc |-> [svc EXCEPT !.temp_file_path = Path(file_path \o ".tmp")],
          disk |-> dsk]
    ELSE [svc |-> [svc EXCEPT !.temp_file_path = Path(file_path \o ".tmp"),
                              !.model_path = Path(file_path \o ".tmp")],
          disk |-> dsk \cup {file_path \o ".tmp"}]

\* wntr.network.WaterNetworkModel(load_path): a model, or the exception.
WaterNetworkModel(load_path, dsk) ==
    IF load_path \notin dsk
    THEN Raise("FileNotFoundError",
               "[Errno 2] No such file or directory: '" \o load_path \o "'")
    ELSE IF load_path \in DOMAIN InpFiles /\ InpFiles[load_path].backdrop
    THEN Raise("Exception", "Backdrop units must be FEET or METERS")
    ELSE IF load_path \in DOMAIN InpFiles /\ InpFiles[load_path].error # ""
    THEN Raise("Exception", InpFiles[load_path].error)
    ELSE IF load_path \notin DOMAIN InpFiles
            /\ \E f \in DOMAIN InpFiles :
                  load_path = f \o ".tmp" /\ InpFiles[f].error # ""
    THEN Raise("Exception",
               InpFiles[CHOOSE f \in DOMAIN InpFiles :
                           load_path = f \o ".tmp"].error)
    ELSE [k |-> "model", path |-> load_path]

\* The extraction steps of load_inp_file whose exceptions are re-raised, in
\* the order of the calls, and the first of them that raises.
Extractions == <<"nodes", "links", "options", "patterns">>

FirstFault(faults) ==
    IF \E n \in 1 .. Len(Extractions) : Extractions[n] \in faults
    THEN Raise("Exception",
               "Error extracting " \o
               Extractions[CHOOSE n \in 1 .. Len(Extractions) :
                              /\ Extractions[n] \in faults
                              /\ \A k \in 1 .. (n - 1) :
                                    Extractions[k] \notin faults])
    ELSE None

\* The message the except clause of load_inp_file reports for str(e).
ErrorMsg(msg) ==
    IF Contains(msg, "Backdrop units must be")
    THEN "Invalid backdrop units in the INP file. The file may have been created with a non-standard EPANET version. Please check the [BACKDROP] section in your INP file."
    ELSE IF Contains(msg, "expected string or bytes-like object")
    THEN "Invalid file format. Please ensure this is a valid EPANET INP file."
    ELSE IF Contains(msg, "No such file or directory")
    THEN "File not found. Please check the file path."
    ELSE msg

\* The except clause of load_inp_file: the temporary file is removed when
\* it exists, a failure to remove it is ignored, and the envelope returned.
LoadExcept(svc, dsk, e, faults) ==
    LET cleans == /\ svc.temp_file_path # None
                  /\ svc.temp_file_path.s \in dsk
                  /\ "remove" \notin faults
    IN  [svc |-> IF cleans THEN [svc EXCEPT !.temp_file_path = None]
                 ELSE svc,
         disk |-> IF cleans THEN dsk \ {svc.temp_file_path.s} ELSE dsk,
         returned |-> Returned([success |-> FALSE,
                                error |-> ErrorMsg(e.arg),
                                details |-> e.arg]),
         sets |-> FALSE]

\* The body of load_inp_file: the fields, the files and the value returned.
LoadBody(file_path, faults, w) ==
    LET pre == _preprocess_inp_file(
                   [wntr_service EXCEPT !.temp_file_path = None], disk,
                   file_path, faults)
        load_path == IF pre.svc.temp_file_path # None
                     THEN pre.svc.temp_file_path.s ELSE file_path
        wn == WaterNetworkModel(load_path, pre.disk)
        loaded == [pre.svc EXCEPT !.current_model = wn,
                                  !.model_path = Path(file_path)]
        data == [name |-> Basename(file_path)]
    IN  IF IsRaise(wn) THEN LoadExcept(pre.svc, pre.disk, wn, faults)
        ELSE IF FirstFault(faults) # None
        THEN [LoadExcept(loaded, pre.disk, FirstFault(faults), faults)
                 EXCEPT !.sets = TRUE]
        ELSE [svc |-> loaded, disk |-> pre.disk,
              returned |-> Returned(
                  IF w = {}
                  THEN [success |-> TRUE, data |-> data]
                  ELSE [success |-> TRUE, data |-> data, warnings |-> w]),
              sets |-> TRUE]

load_inp_file(file_path, faults, w) ==
    /\ called' = [method |-> "load_inp_file", arg |-> file_path,
                  faults |-> faults]
    /\ LET done == LoadBody(file_path, faults, w)
       IN  /\ wntr_service' = done.svc
           /\ disk' = done.disk
           /\ returned' = done.returned
           /\ was_set' = (was_set \/ done.sets)

\* run_simulation without the guard on current_model: the simulator is
\* built on None and its exception reported.
RunSimulationUnguarded(simulation_type, fault) ==
    /\ called' = [method |-> "run_simulation", arg |-> simulation_type,
                  faults |-> IF fault THEN {"simulate"} ELSE {}]
    /\ returned' =
          IF wntr_service.current_model = None
          THEN Returned([success |-> FALSE,
                         error |-> "'NoneType' object has no attribute 'options'"])
          ELSE IF fault
          THEN Returned([success |-> FALSE,
                         error |-> "Simulation did not converge"])
          ELSE Returned([success |-> TRUE,
                         data |-> [timestamps |->
                                      IF simulation_type = "extended"
                                      THEN <<0, 3600>> ELSE <<0>>]])
    /\ UNCHANGED <<wntr_service, disk, was_set>>

run_simulation(simulation_type, fault) ==
    /\ called' = [method |-> "run_simulation", arg |-> simulation_type,
                  faults |-> IF fault THEN {"simulate"} ELSE {}]
    /\ returned' =
          IF wntr_service.current_model = None
          THEN Returned(NoModelLoaded)
          ELSE IF fault
          THEN Returned([success |-> FALSE,
                         error |-> "Simulation did not converge"])
          ELSE Returned([success |-> TRUE,
                         data |-> [timestamps |->
                                      IF simulation_type = "extended"
                                      THEN <<0, 3600>> ELSE <<0>>]])
    /\ UNCHANGED <<wntr_service, disk, was_set>>

analyze_network(fault) ==
    /\ called' = [method |-> "analyze_network", arg |-> "",
                  faults |-> IF fault THEN {"graph"} ELSE {}]
    /\ returned' =
          IF wntr_service.current_model = None
          THEN Returned(NoModelLoaded)
          ELSE IF fault
          THEN Returned([success |-> FALSE,
                         error |-> "Graph is not connected"])
          ELSE Returned([success |-> TRUE,
                         data |-> [topology |-> [is_connected |-> TRUE]]])
    /\ UNCHANGED <<wntr_service, disk, was_set>>

export_to_json(output_path, fault) ==
    /\ called' = [method |-> "export_to_json", arg |-> output_path,
                  faults |-> IF fault THEN {"nodes"} ELSE {}]
    /\ returned' =
          IF wntr_service.current_model = None
          THEN Returned(NoModelLoaded)
          ELSE IF fault
          THEN Returned([success |-> FALSE,
                         error |-> "Error extracting nodes"])
          ELSE Returned([success |-> TRUE,
                         message |-> "Model exported to " \o output_path])
    /\ disk' = IF wntr_service.current_model # None /\ ~fault
               THEN disk \cup {output_path} ELSE disk
    /\ UNCHANGED <<wntr_service, was_set>>

OutputPaths == {"out.json", "nets/net.json"}

\* The calls a client makes on the service instance, in any order.
NextWntr ==
    /\ \/ \E file_path \in DOMAIN InpFiles, faults \in FaultSets,
             w \in WarningSets : load_inp_file(file_path, faults, w)
       \/ \E simulation_type \in {"single", "extended"}, fault \in BOOLEAN :
             run_simulation(simulation_type, fault)
       \/ \E fault \in BOOLEAN : analyze_network(fault)
       \/ \E output_path \in OutputPaths, fault \in BOOLEAN :
             export_to_json(output_path, fault)
    /\ UNCHANGED <<calc_vars, list_vars, ghost_vars, main_vars>>

SpecWntr == Init /\ [][NextWntr]_vars

(***************************************************************************)
(* The error taxonomy, in terms of the exceptions the code raises           *)
(***************************************************************************)

\* The seven ids of the catalog.
CatalogIds == {FormulaList[n].id : n \in 1 .. Len(FormulaList)}

\* UnknownFormula: calculate's own ValueError, which names the id.
UnknownFormula(o, id) ==
    o = [kind |-> "raise", exc |-> "ValueError",
         arg |-> "Unknown formula ID: " \o id]

\* MissingParameter: the KeyError of an inputs[...] read, which names the key.
MissingParameter(o, symbol) ==
    o = [kind |-> "raise", exc |-> "KeyError", arg |-> symbol]

\* InvalidInput: the exceptions of Python's arithmetic on a value outside
\* an operation's domain.
InvalidInput(o) ==
    /\ o.kind = "raise"
    /\ \/ o.exc = "ZeroDivisionError"
       \/ o.exc = "ValueError" /\ o.arg = "math domain error"

Keys(dict) == {dict[n].param : n \in 1 .. Len(dict)}

\* The symbols formula_id's evaluator reads that the dict lacks.
Missing(id, keys) ==
    {n \in 1 .. Len(Reads(id)) : Reads(id)[n] \notin keys}

FirstMissing(id, keys) ==
    Reads(id)[CHOOSE n \in Missing(id, keys) :
                 \A k \in Missing(id, keys) : n <= k]

Complete(id, keys) == Missing(id, keys) = {}

Positive(x) == IsReal(x) /\ x.m > 0

(***************************************************************************)
(* Claims                                                                   *)
(***************************************************************************)

\* C1: a call whose formula_id is none of the seven catalog ids ends, for
\* every inputs map (the empty one included), by raising the unknown-formula
\* error that names the id; it returns no response.
C1_UnknownFormula ==
    \A t \in Threads :
        pc[t] = "done" /\ formula_id[t] \notin CatalogIds
            => UnknownFormula(outcome[t], formula_id[t])

C1_Witness ==
    /\ pc[1] = "done"
    /\ formula_id[1] = "not_a_formula"
    /\ Len(inputs[1]) = 2
    /\ outcome[1].kind = "raise"

\* The inputs map built from the defaultValue entries of a formula's
\* parameters alone, each in the first (base) unit of its list.
RECURSIVE DefaultItems(_, _)
DefaultItems(parameters, n) ==
    IF n > Len(parameters) THEN << >>
    ELSE LET p == parameters[n]
         IN  (IF "defaultValue" \in DOMAIN p
              THEN << [param |-> p.symbol, value |-> p.defaultValue,
                       unit |-> p.units[1]] >>
              ELSE << >>) \o DefaultItems(parameters, n + 1)

DefaultInputs(id) ==
    LET n == CHOOSE k \in 1 .. Len(FormulaList) : FormulaList[k].id = id
    IN  DefaultItems(FormulaList[n].parameters, 1)

\* C2: for each catalog id, the call with the formula's own defaultValue
\* inputs returns a response whose primary result is a positive real.
C2_DefaultsPositive ==
    \A t \in Threads :
        /\ pc[t] = "done"
        /\ formula_id[t] \in CatalogIds
        /\ inputs[t] = DefaultInputs(formula_id[t])
        => outcome[t].kind = "return" /\ Positive(outcome[t].result.value)

\* C3: a call to a catalog formula whose inputs lack a symbol the evaluator
\* reads raises the missing-parameter error naming the first such symbol;
\* no response is produced from a default.
C3_MissingParameter ==
    \A t \in Threads :
        /\ pc[t] = "done"
        /\ formula_id[t] \in CatalogIds
        /\ ~Complete(formula_id[t], Keys(inputs[t]))
        => MissingParameter(outcome[t],
                            FirstMissing(formula_id[t], Keys(inputs[t])))

\* tank_volume called with D alone: H, whose catalog default is 4, is absent.
C3_Witness ==
    /\ pc[1] = "done"
    /\ formula_id[1] = "tank_volume"
    /\ Keys(inputs[1]) = {"D"}
    /\ outcome[1] = [kind |-> "raise", exc |-> "KeyError", arg |-> "H"]

\* A normalized input that is a zero divisor of the formula.
ZeroDivisor(id, si) ==
    \/ id \in {"darcy_weisbach", "hazen_williams", "tank_volume"} /\ IsZero(si["D"])
    \/ id = "pump_power" /\ IsZero(si["eta"])

\* A normalized input that makes the argument of a square root negative.
NegativeRoot(id, si) ==
    \/ id = "orifice_flow" /\ IsNeg(si["h"])
    \/ id = "continuity_equation" /\ IsNeg(si["A"])

\* C4: a call with all its symbols present in which a normalized input is
\* a zero divisor (D, eta) or makes a square-root argument negative (h, A)
\* raises an arithmetic-domain error and returns no response.
C4_InvalidInput ==
    \A t \in Threads :
        /\ pc[t] = "done"
        /\ Complete(formula_id[t], Keys(inputs[t]))
        /\ \/ ZeroDivisor(formula_id[t], si_values[Frame(t)])
           \/ NegativeRoot(formula_id[t], si_values[Frame(t)])
        => InvalidInput(outcome[t])

\* tank_volume with D = 0 and H = 4: the volume is computed, then H/D raises.
C4_Witness ==
    /\ pc[1] = "done"
    /\ formula_id[1] = "tank_volume"
    /\ Complete("tank_volume", Keys(inputs[1]))
    /\ IsZero(si_values[Frame(1)]["D"])
    /\ ~IsZero(si_values[Frame(1)]["H"])
    /\ outcome[1].kind = "raise"
    /\ outcome[1].exc = "ZeroDivisionError"

(***************************************************************************)
(* The conversion table of the specification (section 4.2)                  *)
(***************************************************************************)

\* unit -> the table's operation: times m * 10^e, or divided by 10^n.
UnitTable ==
    [u \in RecognizedUnits |->
        CASE u = "ft"   -> [op |-> "times", m |-> 3048, e |-> -4]
          [] u = "km"   -> [op |-> "times", m |-> 1000, e |-> 0]
          [] u = "mm"   -> [op |-> "over", m |-> 1, e |-> 3]
          [] u = "in"   -> [op |-> "times", m |-> 254, e |-> -4]
          [] u = "cm"   -> [op |-> "over", m |-> 1, e |-> 2]
          [] u = "cm2"  -> [op |-> "over", m |-> 1, e |-> 4]
          [] u = "ft2"  -> [op |-> "times", m |-> 92903, e |-> -6]
          [] u = "in2"  -> [op |-> "times", m |-> 64516, e |-> -8]
          [] u = "L/s"  -> [op |-> "over", m |-> 1, e |-> 3]
          [] u = "gpm"  -> [op |-> "times", m |-> 6309, e |-> -8]
          [] u = "ft/s" -> [op |-> "times", m |-> 3048, e |-> -4]]

\* x / (m * 10^e), the divisor taken exactly and the quotient rounded.
DividedBy(x, m, e) == Norm((x.m * Pow10(5)) \div m, x.e - e - 5)

\* The table's operation for unit u applied to x, and its inverse.
TableValue(x, u) ==
    IF UnitTable[u].op = "times"
    THEN Norm(x.m * UnitTable[u].m, x.e + UnitTable[u].e)
    ELSE DividedBy(x, 1, UnitTable[u].e)

TableInverse(x, u) ==
    IF UnitTable[u].op = "times"
    THEN DividedBy(x, UnitTable[u].m, UnitTable[u].e)
    ELSE Norm(x.m, x.e + UnitTable[u].e)

\* x and y agree to one part in a thousand.
Close(x, y) ==
    \/ x = y
    \/ /\ IsReal(x) /\ IsReal(y) /\ ~IsZero(y)
       /\ ~Lt(Div(x, y), Lit(999, -3))
       /\ ~Gt(Div(x, y), Lit(1001, -3))

\* The items of thread t's inputs that the conversion loop has been through.
Converted(t) ==
    IF pc[t] \in {"convert", "done"}
    THEN {inputs[t][n] : n \in 1 .. (idx[t] - 1)}
    ELSE {}

Normalized(t, item) == si_values[Frame(t)][item.param]

\* C5: every converted item with a recognized unit has the value the table
\* gives for its value and unit alone, so two items with the same value and
\* unit have the same normalized value, whatever their symbols and whatever
\* the formula of the call.
C5_ContextFree ==
    \A t \in Threads :
        \A a \in Converted(t) :
            /\ a.unit \in RecognizedUnits
                  => Normalized(t, a) = TableValue(a.value, a.unit)
            /\ \A b \in Converted(t) :
                  a.value = b.value /\ a.unit = b.unit
                      => Normalized(t, a) = Normalized(t, b)

\* 100 "ft" on an area symbol and on a velocity symbol: both become 30.48.
C5_Witness ==
    /\ pc[1] = "done"
    /\ formula_id[1] = "continuity_equation"
    /\ inputs[1] = << [param |-> "A", value |-> Lit(100, 0), unit |-> "ft"],
                      [param |-> "V", value |-> Lit(100, 0), unit |-> "ft"] >>
    /\ si_values[Frame(1)]["A"] = Lit(3048, -2)
    /\ si_values[Frame(1)]["V"] = Lit(3048, -2)

\* The dict of the items' values as given, without any conversion.
RECURSIVE GivenValues(_, _)
GivenValues(dict, n) ==
    IF n > Len(dict) THEN EmptyDict
    ELSE SetItem(GivenValues(dict, n + 1), dict[n].param, dict[n].value)

\* C6: an item whose unit is not one of the eleven recognized strings keeps
\* its value, and a call whose items all have such units ends as the
\* evaluator does on the values as given.
C6_Passthrough ==
    \A t \in Threads :
        /\ \A a \in Converted(t) :
              a.unit \notin RecognizedUnits => Normalized(t, a) = a.value
        /\ pc[t] = "done"
           /\ (\A n \in 1 .. Len(inputs[t]) :
                  inputs[t][n].unit \notin RecognizedUnits)
           => outcome[t] = Route(__init__, formula_id[t],
                                 GivenValues(inputs[t], 1))

\* tank_volume with D and H of 3.333 "yd": the response of D = H = 3.333.
C6_Witness ==
    /\ pc[1] = "done"
    /\ formula_id[1] = "tank_volume"
    /\ inputs[1] = << [param |-> "D", value |-> Lit(3333, -3), unit |-> "yd"],
                      [param |-> "H", value |-> Lit(3333, -3), unit |-> "yd"] >>
    /\ outcome[1].kind = "return"
    /\ outcome[1].inputs["D"] = Lit(3333, -3)

\* C7: the table's inverse operation applied to the normalized value of an
\* item with a recognized unit gives the item's value back, to one part in
\* a thousand.
C7_RoundTrip ==
    \A t \in Threads :
        \A a \in Converted(t) :
            a.unit \in RecognizedUnits
                => Close(TableInverse(Normalized(t, a), a.unit), a.value)

\* 3.333 gpm is normalized to a different number, and comes back.
C7_Witness ==
    /\ pc[1] = "done"
    /\ inputs[1][1].unit = "gpm"
    /\ inputs[1][1].value = Lit(3333, -3)
    /\ Normalized(1, inputs[1][1]) # inputs[1][1].value
    /\ Close(TableInverse(Normalized(1, inputs[1][1]), "gpm"), inputs[1][1].value)

\* C8: a finished call with the formula_id and inputs of a call made
\* earlier in the sequence has that call's outcome: the same response,
\* field by field, or the same exception.
C8_Deterministic ==
    \A t \in Threads :
        /\ pc[t] = "done"
        /\ memo # None
        /\ memo.formula_id = formula_id[t]
        /\ memo.inputs = inputs[t]
        => outcome[t] = memo.outcome

\* The first call, tank_volume with H alone, is repeated as the third,
\* after a call that supplied a D.
C8_Witness ==
    /\ pc[1] = "done"
    /\ memo # None
    /\ memo.at = 1
    /\ ncalls = 3
    /\ formula_id[1] = "tank_volume"
    /\ Keys(inputs[1]) = {"H"}
    /\ memo.formula_id = formula_id[1]
    /\ memo.inputs = inputs[1]
    /\ outcome[1] = [kind |-> "raise", exc |-> "KeyError", arg |-> "D"]

\* The variables of thread t's call.
Call(t) ==
    <<pc[t], formula_id[t], inputs[t], idx[t], si_values[Frame(t)], outcome[t]>>

\* Every step of a call changes where it is: its pc or its loop index.
Stepped(t) == pc'[t] # pc[t] \/ idx'[t] # idx[t]

\* A step leaves the calculator's fields alone, and leaves alone the call
\* of every thread that did not take it.
Isolated ==
    /\ self' = self
    /\ \A t \in Threads : ~Stepped(t) => Call(t)' = Call(t)

\* C9: however the steps of concurrent calls interleave, a finished call
\* has the outcome that calculate gives for its arguments on its own, no
\* step changes what another thread's call holds, and the calculator's
\* fields stay as __init__ set them.
C9_Concurrent ==
    /\ [](\A t \in Threads :
            pc[t] = "done"
                => outcome[t] = calculate(__init__, formula_id[t], inputs[t]))
    /\ [][Isolated]_vars

\* Thread 1 has its response for D = 3 while thread 2, which entered
\* tank_volume with D = 10 ft, is inside the conversion loop.
C9_Witness ==
    /\ pc[1] = "done"
    /\ formula_id[1] = "tank_volume"
    /\ outcome[1].kind = "return"
    /\ outcome[1].inputs["D"] = Lit(3, 0)
    /\ pc[2] = "convert"
    /\ formula_id[2] = "tank_volume"
    /\ idx[2] = 2
    /\ si_values[Frame(2)]["D"] = Lit(3048, -3)

\* C10: the list get_formulas returns has the seven descriptors of the
\* catalog in the catalog's order, with pairwise distinct ids, whatever
\* calls were made before and whatever callers did to earlier lists.
C10_SameSeven ==
    \A t \in Threads :
        pc[t] = "listed" =>
            LET list == heap[held[t]]
            IN  /\ Len(list) = 7
                /\ [n \in 1 .. 7 |-> list[n].id] =
                       <<"darcy_weisbach", "hazen_williams",
                         "continuity_equation", "orifice_flow", "pump_power",
                         "tank_volume", "water_hammer_pressure">>
                /\ \A m, n \in 1 .. 7 : list[m].id = list[n].id => m = n
                /\ list = FormulaList

\* The second list is whole although the caller emptied part of the first
\* and changed an id in it.
C10_Witness ==
    /\ pc[1] = "listed"
    /\ held[1] = 2
    /\ Len(heap[1]) = 5
    /\ heap[1][1].id = "tampered"
    /\ Len(heap[2]) = 7

\* How many parameters of the id's descriptor carry the symbol.
Occurrences(id, symbol) ==
    Cardinality({k \in 1 .. Len(Descriptor(id).parameters) :
                    Descriptor(id).parameters[k].symbol = symbol})

\* C11: for a call of a catalog id, every symbol its evaluator reads is the
\* symbol of exactly one parameter of the id's descriptor: so is each symbol
\* of its inputs[...] statements, and so is the symbol a KeyError names,
\* and an evaluator given all of these symbols raises no KeyError.
C11_ReadsInCatalog ==
    \A t \in Threads :
        pc[t] = "done" /\ formula_id[t] \in CatalogIds =>
            /\ \A n \in 1 .. Len(Reads(formula_id[t])) :
                  Occurrences(formula_id[t], Reads(formula_id[t])[n]) = 1
            /\ outcome[t].kind = "raise" /\ outcome[t].exc = "KeyError"
                  => Occurrences(formula_id[t], outcome[t].arg) = 1
            /\ Complete(formula_id[t], Keys(inputs[t]))
                  => ~(outcome[t].kind = "raise" /\ outcome[t].exc = "KeyError")

\* hazen_williams given L, Q and C reads D, the last symbol of its
\* evaluator and of its descriptor.
C11_Witness ==
    /\ pc[1] = "done"
    /\ formula_id[1] = "hazen_williams"
    /\ Keys(inputs[1]) = {"L", "Q", "C"}
    /\ outcome[1] = [kind |-> "raise", exc |-> "KeyError", arg |-> "D"]
    /\ Descriptor("hazen_williams").parameters[4].symbol = "D"

\* The normalized inputs are in the domain of the formula's arithmetic: no
\* zero divisor, no negative square-root argument, no negative base of a
\* fractional power.
DomainValid(id, si) ==
    /\ ~ZeroDivisor(id, si)
    /\ ~NegativeRoot(id, si)
    /\ id = "hazen_williams"
          => ~IsZero(si["C"]) /\ \A s \in {"Q", "C", "D"} : ~IsNeg(si[s])

\* The messages an evaluator may put in warnings or recommendations.
IsMessages(list) ==
    \A n \in 1 .. Len(list) : Len(list[n]) \in {1, 2}

\* C12: a call of a catalog id with all its symbols present and in the
\* domain of the arithmetic returns a response with a real result, also
\* when an input lies outside its catalog range or crosses a threshold;
\* what such an input adds is messages in warnings and recommendations.
C12_NeverRejected ==
    \A t \in Threads :
        /\ pc[t] = "done"
        /\ formula_id[t] \in CatalogIds
        /\ Complete(formula_id[t], Keys(inputs[t]))
        /\ DomainValid(formula_id[t], si_values[Frame(t)])
        => /\ outcome[t].kind = "return"
           /\ IsReal(outcome[t].result.value)
           /\ IsMessages(outcome[t].warnings)
           /\ IsMessages(outcome[t].recommendations)

\* pump_power with eta = 0.95, above its range of 0.4 to 0.9, and Q = 1,
\* which takes the power over 100 kW: a response with both recommendations.
C12_Witness ==
    /\ pc[1] = "done"
    /\ formula_id[1] = "pump_power"
    /\ Keys(inputs[1]) = {"Q", "H", "eta"}
    /\ si_values[Frame(1)]["eta"] = Lit(95, -2)
    /\ si_values[Frame(1)]["Q"] = Lit(1, 0)
    /\ OutOfRange("pump_power", si_values[Frame(1)])
    /\ outcome[1].kind = "return"
    /\ Len(outcome[1].recommendations) = 2

\* What tells the evaluators apart in a response: the unit of the result
\* and the descriptions of the intermediate steps, in order.
Signature(id) ==
    CASE id = "darcy_weisbach" ->
           <<"m", "Calculate velocity head", "Calculate L/D ratio",
             "Calculate Reynolds number">>
      [] id = "hazen_williams" ->
           <<"m", "Calculate pipe area", "Calculate velocity">>
      [] id = "continuity_equation" ->
           <<"m3/s", "Calculate flow rate", "Calculate equivalent diameter">>
      [] id = "orifice_flow" ->
           <<"m3/s", "Calculate theoretical velocity",
             "Calculate theoretical flow">>
      [] id = "pump_power" ->
           <<"kW", "Calculate hydraulic power", "Calculate shaft power">>
      [] id = "tank_volume" ->
           <<"m3", "Calculate tank area", "Calculate volume in m3",
             "Convert to liters">>
      [] id = "water_hammer_pressure" ->
           <<"bar", "Calculate pressure rise in Pa", "Convert to bar",
             "Calculate head rise">>

\* The same of a response.
SignatureOf(response) ==
    <<response.result.unit>>
        \o [n \in 1 .. Len(response.intermediate_steps) |->
               response.intermediate_steps[n].description]

\* The units the caller gave.
UnitsOf(dict) == {dict[n].unit : n \in 1 .. Len(dict)}

\* C13: a response to a call of a catalog id carries the steps of that
\* id's evaluator and of no other, and the result unit of the id, whatever
\* the units of the inputs: m, m, m3/s, m3/s, kW, m3, bar.
C13_OneEvaluator ==
    \A t \in Threads :
        /\ pc[t] = "done"
        /\ formula_id[t] \in CatalogIds
        /\ outcome[t].kind = "return"
        => SignatureOf(outcome[t]) = Signature(formula_id[t])

\* orifice_flow given A in cm2 and h in ft, with the V that the continuity
\* evaluator would read: the response is the orifice evaluator's, in m3/s.
C13_Witness ==
    /\ pc[1] = "done"
    /\ formula_id[1] = "orifice_flow"
    /\ Keys(inputs[1]) = {"A", "V", "Cd", "h"}
    /\ UnitsOf(inputs[1]) = {"cm2", "ft/s", "-", "ft"}
    /\ outcome[1].kind = "return"
    /\ outcome[1].result.unit = "m3/s"
    /\ outcome[1].intermediate_steps[2].description = "Calculate theoretical flow"

\* Thread t's call has ended by raising.
Failed(t) == pc[t] = "done" /\ outcome[t].kind = "raise"

\* C14 as stated: when a call fails, no unit normalization has been
\* performed: the conversion loop has made no iteration and its dict is
\* empty.
C14_NoPartialComputation ==
    \A t \in Threads :
        Failed(t) => idx[t] = 1 /\ si_values[Frame(t)] = EmptyDict

\* V = math.pi * D**2 / 4 * H  (line 578), the first arithmetic of
\* _calculate_tank_volume.
TankVolumeStatement(si) ==
    Mul(Div(Mul(pi, Mul(si["D"], si["D"])), Lit(4, 0)), si["H"])

\* C14, amended: a failing call returns no response, and its error is that
\* of the first statement that fails: the unknown id's, else the first
\* missing symbol's, else the arithmetic's. By then the conversion loop
\* has normalized every entry of the inputs, and the arithmetic before the
\* failing statement has run: for tank_volume with D = 0, the volume of
\* line 578 is computed before H/D raises.
C14_FailsAtDetection ==
    \A t \in Threads :
        Failed(t) =>
            /\ DOMAIN outcome[t] = {"kind", "exc", "arg"}
            /\ idx[t] = Len(inputs[t]) + 1
            /\ DOMAIN si_values[Frame(t)] = Keys(inputs[t])
            /\ self = __init__
            /\ IF formula_id[t] \notin CatalogIds
               THEN UnknownFormula(outcome[t], formula_id[t])
               ELSE IF ~Complete(formula_id[t], Keys(inputs[t]))
               THEN MissingParameter(outcome[t],
                                     FirstMissing(formula_id[t], Keys(inputs[t])))
               ELSE /\ InvalidInput(outcome[t])
                    /\ formula_id[t] = "tank_volume"
                          => /\ IsReal(TankVolumeStatement(si_values[Frame(t)]))
                             /\ outcome[t].exc = "ZeroDivisionError"

\* The unknown id "tank" with D = 10 ft and H = 4 m: both entries were
\* normalized before the id was found to have no evaluator.
C14_Witness ==
    /\ Failed(1)
    /\ formula_id[1] = "tank"
    /\ Keys(inputs[1]) = {"D", "H"}
    /\ idx[1] = 3
    /\ si_values[Frame(1)]["D"] = Lit(3048, -3)
    /\ UnknownFormula(outcome[1], "tank")

\* The last string of a list.
Last(list) == list[Len(list)]

\* The number a message states is exactly the value x.
StatesExactly(message, x) == Norm(message[2][1], message[2][2]) = x

\* The number a message states has at most d decimals and lies within half
\* a unit of the d-th decimal of the real value x.
StatesRounded(message, x, d) ==
    LET n == message[2][1]
        s == message[2][2]
    IN  /\ s >= -d
        /\ IF x.e >= s
           THEN n = x.m * Pow10(x.e - s)
           ELSE 2 * Abs(n * Pow10(s - x.e) - x.m) <= Pow10(s - x.e)

\* P = rho g Q H / eta / 1000 of the normalized inputs.
PumpPower(si) ==
    Div(Div(Mul(Mul(Mul(__init__.water_density, __init__.gravity), si["Q"]),
                si["H"]),
            si["eta"]),
        Lit(1000, 0))

\* The motor-size recommendation of a pump_power response: its last.
MotorSize(response) == Last(response.recommendations)

\* Thread t's call of the formula has returned a response.
Succeeded(t, id) ==
    pc[t] = "done" /\ formula_id[t] = id /\ outcome[t].kind = "return"

\* C15 as stated: every pump_power response has the result
\* P = rho g Q H / eta / 1000 kW, and its motor-size recommendation states
\* P x 1.15 verbatim, with all its digits.
C15_MotorSizeVerbatim ==
    \A t \in Threads :
        Succeeded(t, "pump_power") =>
            /\ outcome[t].result = [value |-> PumpPower(si_values[Frame(t)]),
                                    unit |-> "kW"]
            /\ MotorSize(outcome[t])[1] = "Recommended motor size: {:.1f} kW"
            /\ StatesExactly(MotorSize(outcome[t]),
                             Mul(outcome[t].result.value, Lit(115, -2)))

\* C15, amended: every pump_power response has the result
\* P = rho g Q H / eta / 1000 kW, and its last recommendation is the
\* motor size, which states P x 1.15 rounded to one decimal.
C15_MotorSizeOneDecimal ==
    \A t \in Threads :
        Succeeded(t, "pump_power") =>
            /\ outcome[t].result = [value |-> PumpPower(si_values[Frame(t)]),
                                    unit |-> "kW"]
            /\ MotorSize(outcome[t])[1] = "Recommended motor size: {:.1f} kW"
            /\ StatesRounded(MotorSize(outcome[t]),
                             Mul(outcome[t].result.value, Lit(115, -2)), 1)

\* Q = 0.05, H = 30, eta = 0.75: the result is 19.63 kW to the four digits
\* kept here (19.62 in double precision), P x 1.15 is 22.57 (22.56), and
\* the recommendation states 22.6 kW.
C15_Witness ==
    /\ Succeeded(1, "pump_power")
    /\ si_values[Frame(1)] =
           [s \in {"Q", "H", "eta"} |->
               CASE s = "Q" -> Lit(5, -2) [] s = "H" -> Lit(30, 0)
                 [] s = "eta" -> Lit(75, -2)]
    /\ outcome[1].result.value = Lit(1963, -2)
    /\ Mul(outcome[1].result.value, Lit(115, -2)) = Lit(2257, -2)
    /\ outcome[1].recommendations =
           << <<"Recommended motor size: {:.1f} kW", <<226, -1>> >> >>

\* The string is one of the list's.
Has(list, string) == \E n \in 1 .. Len(list) : list[n] = <<string>>

Laminar == "Flow is laminar. Consider using f = 64/Re."

Turbulent ==
    "Flow is turbulent. Verify friction factor using Moody diagram or Colebrook equation."

\* Re = V D / nu of the normalized inputs.
Reynolds(si) == Div(Mul(si["V"], si["D"]), __init__.kinematic_viscosity)

\* hf = f (L/D) (V^2 / 2g) of the normalized inputs.
DarcyHeadLoss(si) ==
    Mul(Mul(si["f"], Div(si["L"], si["D"])),
        Div(Mul(si["V"], si["V"]), Mul(Lit(2, 0), __init__.gravity)))

\* C16: a darcy_weisbach response recommends the Colebrook/Moody check
\* exactly when Re > 4000 and f = 64/Re exactly when Re < 2000, neither
\* from 2000 to 4000 inclusive and never both, and nothing else; its result
\* is hf = f (L/D) (V^2 / 2g) in m.
C16_ReynoldsRegimes ==
    \A t \in Threads :
        Succeeded(t, "darcy_weisbach") =>
            LET Re == Reynolds(si_values[Frame(t)])
                recommendations == outcome[t].recommendations
            IN  /\ Has(recommendations, Turbulent) <=> Lt(Lit(4000, 0), Re)
                /\ Has(recommendations, Laminar) <=> Lt(Re, Lit(2000, 0))
                /\ ~Lt(Re, Lit(2000, 0)) /\ ~Lt(Lit(4000, 0), Re)
                      => recommendations = << >>
                /\ Len(recommendations) <= 1
                /\ outcome[t].result =
                      [value |-> DarcyHeadLoss(si_values[Frame(t)]), unit |-> "m"]
                /\ outcome[t].intermediate_steps[3].result = Re

\* D = 1.003 mm and V = 4: Re is 4000, not above it, and the response
\* recommends nothing.
C16_Witness ==
    /\ Succeeded(1, "darcy_weisbach")
    /\ Reynolds(si_values[Frame(1)]) = Lit(4000, 0)
    /\ outcome[1].recommendations = << >>
    /\ outcome[1].intermediate_steps[3].result = Lit(4000, 0)

\* dP (bar) = rho c dV / 100000 of the normalized inputs.
SurgeBar(si) ==
    Div(Mul(Mul(__init__.water_density, si["c"]), si["dV"]), Lit(100000, 0))

\* 1 when the condition holds, 0 when it does not.
Count(cond) == IF cond THEN 1 ELSE 0

\* C17: a water_hammer_pressure response has the result
\* dP = rho c dV / 100000 in bar; its only warning is the surge warning,
\* present exactly when dP > 10; its recommendations are, in this order,
\* surge protection exactly when dP > 10, slow-closing valves exactly when
\* dV > 1, and always, last, the critical pipe length, which states 2 c in
\* whole metres.
C17_SurgeThresholds ==
    \A t \in Threads :
        Succeeded(t, "water_hammer_pressure") =>
            LET si == si_values[Frame(t)]
                surge == Lt(Lit(10, 0), SurgeBar(si))
                fast == Lt(Lit(1, 0), si["dV"])
                warnings == outcome[t].warnings
                recommendations == outcome[t].recommendations
            IN  /\ outcome[t].result = [value |-> SurgeBar(si), unit |-> "bar"]
                /\ Has(warnings, "High pressure surge - risk of pipe damage!")
                      <=> surge
                /\ Len(warnings) = Count(surge)
                /\ Has(recommendations,
                       "Consider installing surge protection devices.") <=> surge
                /\ Has(recommendations,
                       "Large velocity change - use slow-closing valves.") <=> fast
                /\ Len(recommendations) = Count(surge) + Count(fast) + 1
                /\ surge => recommendations[1] =
                                <<"Consider installing surge protection devices.">>
                /\ Last(recommendations)[1] = "Critical pipe length: {:.0f} m"
                /\ StatesRounded(Last(recommendations), Mul(si["c"], Lit(2, 0)), 0)

\* c = 1200 and dV = 2: 24 bar, the warning, and 2400 m last of three
\* recommendations.
C17_Witness ==
    /\ Succeeded(1, "water_hammer_pressure")
    /\ outcome[1].result = [value |-> Lit(24, 0), unit |-> "bar"]
    /\ outcome[1].warnings = << <<"High pressure surge - risk of pipe damage!">> >>
    /\ outcome[1].recommendations =
           << <<"Consider installing surge protection devices.">>,
              <<"Large velocity change - use slow-closing valves.">>,
              <<"Critical pipe length: {:.0f} m", <<2400, 0>> >> >>

\* C18: a tank_volume response warns that the tank is very wide exactly
\* when H/D < 0.5 and that it is very tall exactly when H/D > 3, and has no
\* other warning; its result is the volume in m3, and its recommendations
\* are exactly two: the total capacity, volume x 1000, in whole liters,
\* then the effective 95% of it.
C18_AspectRatio ==
    \A t \in Threads :
        Succeeded(t, "tank_volume") =>
            LET si == si_values[Frame(t)]
                ratio == Div(si["H"], si["D"])
                wide == Lt(ratio, Lit(5, -1))
                tall == Lt(Lit(3, 0), ratio)
                liters == Mul(outcome[t].result.value, Lit(1000, 0))
                warnings == outcome[t].warnings
                recommendations == outcome[t].recommendations
            IN  /\ outcome[t].result =
                      [value |-> TankVolumeStatement(si), unit |-> "m3"]
                /\ Has(warnings, "Tank is very wide - check structural design.")
                      <=> wide
                /\ Has(warnings, "Tank is very tall - check stability.") <=> tall
                /\ Len(warnings) = Count(wide) + Count(tall)
                /\ Len(recommendations) = 2
                /\ recommendations[1][1] = "Total capacity: {:.0f} liters"
                /\ StatesRounded(recommendations[1], liters, 0)
                /\ recommendations[2][1] = "Effective volume (95%): {:.0f} liters"
                /\ StatesRounded(recommendations[2], Mul(liters, Lit(95, -2)), 0)

\* D = 3 and H = 9: H/D is 3, not above it, so no warning, and two
\* recommendations.
C18_Witness ==
    /\ Succeeded(1, "tank_volume")
    /\ si_values[Frame(1)]["D"] = Lit(3, 0)
    /\ si_values[Frame(1)]["H"] = Lit(9, 0)
    /\ outcome[1].warnings = << >>
    /\ Len(outcome[1].recommendations) = 2
    /\ outcome[1].recommendations[1][2] = <<6363, 1>>

\* The command line asks for a calculation that json.loads can read, that
\* calculate answers and that json.dumps can print.
CalculateSucceeds(args) ==
    /\ Len(args) >= 4
    /\ args[2] = "calculate"
    /\ args[4].kind = "dict"
    /\ calculate(__init__, args[3], args[4].value).kind = "return"
    /\ Serializable(calculate(__init__, args[3], args[4].value))

\* C19: a run prints nothing before it ends and exactly one envelope by
\* then: success true with the data and no error when the sub-command is
\* formulas (the catalog) or a calculate that succeeds (the response);
\* success false with an error and no data in every other case.
C19_OneEnvelope ==
    /\ at # "exit" => stdout = << >>
    /\ at = "exit" /\ argv # << >> =>
          /\ Len(stdout) = 1
          /\ IF Len(argv) >= 2 /\ argv[2] = "formulas"
             THEN stdout[1] = [success |-> TRUE, data |-> FormulaList]
             ELSE IF CalculateSucceeds(argv)
             THEN stdout[1] =
                      [success |-> TRUE,
                       data |-> to_dict(calculate(__init__, argv[3],
                                                  argv[4].value))]
             ELSE /\ DOMAIN stdout[1] = {"success", "error"}
                  /\ stdout[1].success = FALSE

\* calculate hazen_williams with Q = -50 L/s: calculate returns a response
\* whose head loss is complex, json.dumps raises, and the one envelope
\* printed is the error's.
C19_Witness ==
    /\ at = "exit"
    /\ Len(argv) = 4
    /\ argv[3] = "hazen_williams"
    /\ outcome[1].kind = "return"
    /\ ~Serializable(outcome[1])
    /\ stdout = << [success |-> FALSE,
                    error |-> "Object of type complex is not JSON serializable"] >>

\* The value of an entry in base units, by the unit table.
InBaseUnits(entry) ==
    IF entry.unit \in RecognizedUnits
    THEN TableValue(entry.value, entry.unit)
    ELSE entry.value

\* C20: the inputs of a response have exactly the symbols of the caller's
\* inputs, those the formula does not read included, each with the
\* caller's value converted to base units by the unit table.
C20_ResponseInputs ==
    \A t \in Threads :
        pc[t] = "done" /\ outcome[t].kind = "return" =>
            /\ DOMAIN outcome[t].inputs = Keys(inputs[t])
            /\ \A n \in 1 .. Len(inputs[t]) :
                  outcome[t].inputs[inputs[t][n].param] = InBaseUnits(inputs[t][n])

\* tank_volume given D = 10 ft, H = 10 ft and a temperature T in degC that
\* it does not read: the response's inputs are D = H = 3.048 and T = 20.
C20_Witness ==
    /\ Succeeded(1, "tank_volume")
    /\ Keys(inputs[1]) = {"D", "H", "T"}
    /\ UnitsOf(inputs[1]) = {"ft", "degC"}
    /\ outcome[1].inputs =
           [s \in {"D", "H", "T"} |->
               IF s = "T" THEN Lit(20, 0) ELSE Lit(3048, -3)]

\* V = Q / (pi D^2 / 4) of the normalized inputs of hazen_williams.
HazenVelocity(si) ==
    Div(si["Q"], Div(Mul(pi, Mul(si["D"], si["D"])), Lit(4, 0)))

\* The velocity the formula's warnings are about, and the two warnings.
Velocity(id, si) ==
    IF id = "darcy_weisbach" THEN si["V"] ELSE HazenVelocity(si)

LowVelocity(id) ==
    IF id = "darcy_weisbach"
    THEN "Velocity is low. Risk of sedimentation."
    ELSE "Low velocity - risk of sedimentation."

HighVelocity(id) ==
    IF id = "darcy_weisbach"
    THEN "Velocity is high. Risk of erosion and noise."
    ELSE "High velocity - risk of erosion."

\* C21: a darcy_weisbach or hazen_williams response has the low-velocity
\* warning exactly when V < 0.6 and the high-velocity warning exactly when
\* V > 3, so neither from 0.6 to 3 inclusive and never both; V is the input
\* of darcy_weisbach and Q / (pi D^2 / 4) in hazen_williams.
C21_VelocityWarnings ==
    \A t \in Threads :
        \A id \in {"darcy_weisbach", "hazen_williams"} :
            Succeeded(t, id) =>
                LET V == Velocity(id, si_values[Frame(t)])
                    warnings == outcome[t].warnings
                IN  /\ Has(warnings, LowVelocity(id)) <=> Lt(V, Lit(6, -1))
                    /\ Has(warnings, HighVelocity(id)) <=> Lt(Lit(3, 0), V)
                    /\ ~(Has(warnings, LowVelocity(id))
                         /\ Has(warnings, HighVelocity(id)))
                    /\ id = "hazen_williams"
                          => outcome[t].intermediate_steps[2].result = V

\* hazen_williams with Q = 0.4713 and D = 1: V is 0.6, not below it, and
\* with C = 130 there is no warning at all.
C21_Witness ==
    /\ Succeeded(1, "hazen_williams")
    /\ HazenVelocity(si_values[Frame(1)]) = Lit(6, -1)
    /\ si_values[Frame(1)]["C"] = Lit(130, 0)
    /\ outcome[1].warnings = << >>

LowC == "Low C value indicates old or rough pipes."

HighC == "High C value - ensure it matches pipe material."

\* C22: a hazen_williams response has the low-C warning exactly when
\* C < 100, and then as the first of its warnings, before any velocity
\* warning; its only recommendation is to verify the material, present
\* exactly when C > 140; from 100 to 140 inclusive it has neither.
C22_RoughnessChecks ==
    \A t \in Threads :
        Succeeded(t, "hazen_williams") =>
            LET C == si_values[Frame(t)]["C"]
                warnings == outcome[t].warnings
                recommendations == outcome[t].recommendations
            IN  /\ Has(warnings, LowC) <=> Lt(C, Lit(100, 0))
                /\ Has(warnings, LowC) => warnings[1] = <<LowC>>
                /\ \A n \in 2 .. Len(warnings) : warnings[n] # <<LowC>>
                /\ Has(recommendations, HighC) <=> Lt(Lit(140, 0), C)
                /\ Len(recommendations) = Count(Lt(Lit(140, 0), C))
                /\ ~Lt(C, Lit(100, 0)) /\ ~Lt(Lit(140, 0), C)
                      => ~Has(warnings, LowC) /\ recommendations = << >>

\* C = 90 with 100 gpm in a 0.15 m pipe: the low-C warning, then the
\* low-velocity warning, and no recommendation.
C22_Witness ==
    /\ Succeeded(1, "hazen_williams")
    /\ si_values[Frame(1)]["C"] = Lit(90, 0)
    /\ outcome[1].warnings =
           << <<LowC>>, <<"Low velocity - risk of sedimentation.">> >>
    /\ outcome[1].recommendations = << >>

MultiplePumps == "High power requirement - consider multiple pumps."

LowEfficiency == "Low pump efficiency - consider pump replacement."

\* C23: a pump_power response has the low-efficiency warning, its only
\* one, exactly when eta < 0.5; the multiple-pumps recommendation exactly
\* when the result is above 100 kW, and then first; the motor size always
\* last; so one or two recommendations.
C23_PumpChecks ==
    \A t \in Threads :
        Succeeded(t, "pump_power") =>
            LET eta == si_values[Frame(t)]["eta"]
                high == Lt(Lit(100, 0), outcome[t].result.value)
                warnings == outcome[t].warnings
                recommendations == outcome[t].recommendations
            IN  /\ Has(warnings, LowEfficiency) <=> Lt(eta, Lit(5, -1))
                /\ Len(warnings) = Count(Lt(eta, Lit(5, -1)))
                /\ Has(recommendations, MultiplePumps) <=> high
                /\ high => recommendations[1] = <<MultiplePumps>>
                /\ Len(recommendations) = 1 + Count(high)
                /\ Len(recommendations) \in {1, 2}
                /\ Last(recommendations)[1] = "Recommended motor size: {:.1f} kW"

\* Q = 1, H = 10 and eta = 0.981: the result is 100 kW, not above it, and
\* the motor size, 115 kW, is the only recommendation.
C23_Witness ==
    /\ Succeeded(1, "pump_power")
    /\ outcome[1].result.value = Lit(100, 0)
    /\ outcome[1].warnings = << >>
    /\ outcome[1].recommendations =
           << <<"Recommended motor size: {:.1f} kW", <<1150, -1>> >> >>

LowHead == "Very low head - results may be inaccurate."

SharpEdges == "Low discharge coefficient - check for sharp edges."

\* C24: an orifice_flow response (h >= 0) has the low-head warning, its
\* only one, exactly when h < 0.1 and the sharp-edge recommendation, its
\* only one, exactly when Cd < 0.6, each whatever the other; its result,
\* in m3/s, is Cd times the result of its theoretical-flow step,
\* A sqrt(2 g h), to within rounding.
C24_OrificeChecks ==
    \A t \in Threads :
        Succeeded(t, "orifice_flow") =>
            LET si == si_values[Frame(t)]
                low == Lt(si["h"], Lit(1, -1))
                sharp == Lt(si["Cd"], Lit(6, -1))
                theoretical == outcome[t].intermediate_steps[2].result
            IN  /\ ~IsNeg(si["h"])
                /\ Has(outcome[t].warnings, LowHead) <=> low
                /\ Len(outcome[t].warnings) = Count(low)
                /\ Has(outcome[t].recommendations, SharpEdges) <=> sharp
                /\ Len(outcome[t].recommendations) = Count(sharp)
                /\ theoretical =
                      Mul(si["A"],
                          Sqrt(Mul(Mul(Lit(2, 0), __init__.gravity), si["h"])))
                /\ Close(outcome[t].result.value, Mul(si["Cd"], theoretical))

\* Cd = 0.6 with h = 0.05: the warning without the recommendation.
C24_Witness ==
    /\ Succeeded(1, "orifice_flow")
    /\ si_values[Frame(1)]["Cd"] = Lit(6, -1)
    /\ si_values[Frame(1)]["h"] = Lit(5, -2)
    /\ outcome[1].warnings = << <<LowHead>> >>
    /\ outcome[1].recommendations = << >>

Stagnation == "Very low velocity - check for stagnation."

PipeRating == "Very high velocity - check pipe rating."

\* C25: a continuity_equation response (A >= 0) has the result Q = A V in
\* m3/s, the stagnation warning exactly when V < 0.3 and the pipe-rating
\* warning exactly when V > 5, so neither from 0.3 to 5 inclusive and never
\* both, no other warning, and no recommendation.
C25_ContinuityChecks ==
    \A t \in Threads :
        Succeeded(t, "continuity_equation") =>
            LET si == si_values[Frame(t)]
                slow == Lt(si["V"], Lit(3, -1))
                fast == Lt(Lit(5, 0), si["V"])
                warnings == outcome[t].warnings
            IN  /\ ~IsNeg(si["A"])
                /\ outcome[t].result =
                      [value |-> Mul(si["A"], si["V"]), unit |-> "m3/s"]
                /\ Has(warnings, Stagnation) <=> slow
                /\ Has(warnings, PipeRating) <=> fast
                /\ Len(warnings) = Count(slow) + Count(fast)
                /\ Len(warnings) <= 1
                /\ outcome[t].recommendations = << >>

\* A = 0.0177 and V = 5: Q = 0.0885, V is not above 5, and there is no
\* warning.
C25_Witness ==
    /\ Succeeded(1, "continuity_equation")
    /\ si_values[Frame(1)]["A"] = Lit(177, -4)
    /\ si_values[Frame(1)]["V"] = Lit(5, 0)
    /\ outcome[1].result.value = Lit(885, -4)
    /\ outcome[1].warnings = << >>
    /\ outcome[1].recommendations = << >>

\* The number of intermediate steps of each formula.
NumSteps(id) ==
    CASE id \in {"darcy_weisbach", "tank_volume", "water_hammer_pressure"} -> 3
      [] id \in {"hazen_williams", "continuity_equation", "orifice_flow",
                 "pump_power"} -> 2

\* C26: the intermediate steps of a response are, whatever the values of
\* the inputs, the steps of its formula id in their order: three for
\* darcy_weisbach, tank_volume and water_hammer_pressure, two for the other
\* four, each with a description, a formula text and a result.
C26_FixedSteps ==
    \A t \in Threads :
        \A id \in CatalogIds :
            Succeeded(t, id) =>
                LET steps == outcome[t].intermediate_steps
                IN  /\ Len(steps) = NumSteps(id)
                    /\ \A n \in 1 .. Len(steps) :
                          /\ DOMAIN steps[n] = {"description", "formula", "result"}
                          /\ steps[n].description = Signature(id)[n + 1]
                          /\ steps[n].result.k \in {"real", "complex"}

\* water_hammer_pressure with c = 500 and dV = 0.5, below every threshold:
\* the three steps all the same, the head rise last.
C26_Witness ==
    /\ Succeeded(1, "water_hammer_pressure")
    /\ si_values[Frame(1)]["c"] = Lit(500, 0)
    /\ si_values[Frame(1)]["dV"] = Lit(5, -1)
    /\ outcome[1].warnings = << >>
    /\ Len(outcome[1].intermediate_steps) = 3
    /\ outcome[1].intermediate_steps[3].description = "Calculate head rise"

\* C27: every response has a real result and real intermediate-step
\* results: no inputs, a negative flow Q in hazen_williams among them, give
\* a response that carries a non-real number.
C27_RealResults ==
    \A t \in Threads :
        pc[t] = "done" /\ outcome[t].kind = "return" =>
            /\ IsReal(outcome[t].result.value)
            /\ \A n \in 1 .. Len(outcome[t].intermediate_steps) :
                  IsReal(outcome[t].intermediate_steps[n].result)

\* A step of thread t's call of calculate: the call is under way before it.
InCall(t) == pc[t] = "convert"

\* C28: no step of a call of calculate, the one that ends it by a response
\* or by an exception included, changes the caller's inputs map: every
\* entry keeps its value and unit. The map the normalized values go to is
\* created empty when the call is entered, and only it is written.
C28_InputsUnchanged ==
    [][\A t \in Threads :
          /\ InCall(t) => /\ inputs'[t] = inputs[t]
                          /\ formula_id'[t] = formula_id[t]
                          /\ DOMAIN si_values'[Frame(t)]
                                 \subseteq Keys(inputs[t])
          /\ ~InCall(t) /\ pc'[t] = "convert"
                => si_values'[Frame(t)] = EmptyDict]_vars

\* tank_volume with D = 10 ft has returned its response for D = 3.048 m,
\* and the caller's entry still reads 10 ft.
C28_Witness ==
    /\ Succeeded(1, "tank_volume")
    /\ Len(inputs[1]) >= 1
    /\ inputs[1][1] = [param |-> "D", value |-> Lit(10, 0), unit |-> "ft"]
    /\ outcome[1].inputs["D"] = Lit(3048, -3)

\* Labels of the base units and of dimensionless quantities.
BaseLabels == {"m", "m2", "m/s", "m3/s", "-"}

\* The converter has a branch for unit u: it rescales a value of one.
Recognizes(u) == Convert(Lit(1, 0), u) # Lit(1, 0)

\* The accepted units the catalog lists for symbol sym of formula id.
AcceptedUnits(id, sym) ==
    UNION {{p.units[n] : n \in 1 .. Len(p.units)} :
              p \in {q \in {Descriptor(id).parameters[k] :
                               k \in 1 .. Len(Descriptor(id).parameters)} :
                        q.symbol = sym}}

\* C29: every unit the catalog lists for a parameter is a base or
\* dimensionless label or a unit the converter has a branch for, and an
\* input that carries a listed unit on its parameter is normalized to its
\* own value (base label) or to what the conversion table gives, never
\* passed through unscaled.
C29_CatalogUnitsConvertible ==
    /\ \A k \in 1 .. Len(FormulaList) :
          \A n \in 1 .. Len(FormulaList[k].parameters) :
             \A m \in 1 .. Len(FormulaList[k].parameters[n].units) :
                LET u == FormulaList[k].parameters[n].units[m]
                IN  u \in BaseLabels \/ Recognizes(u)
    /\ \A t \in Threads :
          formula_id[t] \in CatalogIds =>
             \A a \in Converted(t) :
                a.unit \in AcceptedUnits(formula_id[t], a.param) =>
                   IF a.unit \in BaseLabels
                   THEN Normalized(t, a) = a.value
                   ELSE /\ a.unit \in DOMAIN UnitTable
                        /\ Normalized(t, a) = TableValue(a.value, a.unit)

\* A flow in gallons per minute, a unit the catalog lists for Q, has been
\* normalized to cubic metres per second.
C29_Witness ==
    \E n \in 1 .. (idx[1] - 1) :
        /\ pc[1] \in {"convert", "done"}
        /\ formula_id[1] \in {"hazen_williams", "pump_power"}
        /\ inputs[1][n].param = "Q"
        /\ inputs[1][n].unit = "gpm"
        /\ "gpm" \in AcceptedUnits(formula_id[1], "Q")
        /\ ~IsZero(inputs[1][n].value)
        /\ Normalized(1, inputs[1][n]) # inputs[1][n].value
        /\ Normalized(1, inputs[1][n]) = Times(inputs[1][n].value, 6309, -8)

\* The methods that answer from the loaded model.
ModelMethods == {"run_simulation", "analyze_network", "export_to_json"}

\* The load of the call cannot give a model and its data: the file or the
\* rewritten copy to load does not exist, the library rejects the content,
\* or the extraction of nodes, links, options or patterns raises.
LoadFails(call, dsk) ==
    \/ call.arg \notin dsk
    \/ InpFiles[call.arg].error # ""
    \/ /\ InpFiles[call.arg].backdrop
       /\ "write" \in call.faults
       /\ (call.arg \o ".tmp") \notin dsk
    \/ call.faults \cap {"nodes", "links", "options", "patterns"} # {}

\* C30: a call of run_simulation, analyze_network or export_to_json on a
\* service whose current_model was never set returns the envelope
\* {success: false, error: 'No model loaded'}, raises nothing and leaves
\* current_model, model_path and temp_file_path as they were; a call of
\* load_inp_file raises nothing, and returns an envelope with success false
\* whenever the load fails.
C30_NoModelLoaded ==
    [][/\ called'.method \in ModelMethods /\ ~was_set
             => /\ returned' = Returned(NoModelLoaded)
                /\ wntr_service' = wntr_service
       /\ called'.method = "load_inp_file"
             => /\ returned'.kind = "return"
                /\ "success" \in DOMAIN returned'.value
                /\ LoadFails(called', disk)
                      => returned'.value.success = FALSE]_wntr_vars

\* bad.inp was preprocessed into a temporary copy and rejected, which left
\* a model_path but no model, and export_to_json then answered that no
\* model is loaded.
C30_Witness ==
    /\ ~was_set
    /\ called # None
    /\ called.method = "export_to_json"
    /\ wntr_service.current_model = None
    /\ wntr_service.model_path = Path("bad.inp.tmp")
    /\ returned = Returned(NoModelLoaded)

====
